---- MODULE Spec2Model ----
(***************************************************************************)
(* li0ard/vds: ICAO Visible Digital Seals (VDS) and ICAO Datastructure for *)
(* Barcode (IDB).  Byte strings are sequences of 0..255, JavaScript        *)
(* strings are sequences of UTF-16 code units, a call that throws returns *)
(* Err, a call that returns v returns Ok(v).                               *)
(***************************************************************************)
EXTENDS Integers, Sequences, FiniteSets, TLC

VARIABLES
    op,       \* the operation that ran last
    input,    \* the argument handed to the first operation of the run
    output,   \* what the last operation returned
    seal,     \* the Seal object under work
    barcode,  \* the ICAOBarcode object under work
    vdsDocumentStorage,  \* Map of a class to its DocumentMeta
    vdsSchemaStorage,    \* Map of a class to its ClassSchema
    position,            \* parseTLVs: the read position in rawBytes
    derTlvList           \* parseTLVs: the TLVs read so far

vars == <<op, input, output, seal, barcode, vdsDocumentStorage, vdsSchemaStorage,
          position, derTlvList>>

(***************************************************************************)
(* Model bounds.                                                           *)
(***************************************************************************)
\* longest string handed to C40Encoder.encode
MaxStrLen == 4

\* longest private key in bytes (a field of 8 * MaxKeyLen bits)
MaxKeyLen == 66

\* longest byte buffer handed to the TLV readers and to getDerInteger
MaxBufLen == 4

\* largest value length handed to getDerLength, besides the three-byte ones
MaxDerLength == 300

(***************************************************************************)
(* Results and absent values.                                              *)
(***************************************************************************)
Ok(v) == [ok |-> TRUE, val |-> v]
Err == [ok |-> FALSE, val |-> <<>>]
Null == [null |-> TRUE]
NoSeal == [none |-> TRUE]
NoBarcode == [none |-> TRUE]
NewMap == [key \in {} |-> Null]

(***************************************************************************)
(* Sequence helpers: Array.prototype.slice, concatBytes, replaceAll.       *)
(***************************************************************************)
Min(a, b) == IF a < b THEN a ELSE b
Max(a, b) == IF a > b THEN a ELSE b

\* data.slice(from, to) with 0-based from/to, both clamped to the length
Slice(s, from, to) ==
    LET f == Min(Max(from, 0), Len(s))
        t == Min(Max(to, 0), Len(s))
    IN  IF t <= f THEN <<>> ELSE SubSeq(s, f + 1, t)

RECURSIVE Flatten(_)
Flatten(ss) == IF ss = <<>> THEN <<>> ELSE Head(ss) \o Flatten(Tail(ss))

\* str.replaceAll(a, b) for single code units; b = -1 removes the unit
RECURSIVE replaceAll(_, _, _)
replaceAll(s, a, b) ==
    IF s = <<>> THEN <<>>
    ELSE (IF Head(s) = a THEN (IF b = -1 THEN <<>> ELSE <<b>>) ELSE <<Head(s)>>)
         \o replaceAll(Tail(s), a, b)

\* String.prototype.toUpperCase on the code units 0..255 (and those above)
upperCaseUnit(c) ==
    IF c >= 97 /\ c <= 122 THEN <<c - 32>>
    ELSE IF c = 181 THEN <<924>>
    ELSE IF c = 223 THEN <<83, 83>>
    ELSE IF c >= 224 /\ c <= 254 /\ c # 247 THEN <<c - 32>>
    ELSE IF c = 255 THEN <<376>>
    ELSE <<c>>

RECURSIVE toUpperCase(_)
toUpperCase(s) ==
    IF s = <<>> THEN <<>> ELSE upperCaseUnit(Head(s)) \o toUpperCase(Tail(s))

\* String.prototype.toLowerCase on ASCII
toLowerCase(s) ==
    [i \in 1..Len(s) |-> IF s[i] >= 65 /\ s[i] <= 90 THEN s[i] + 32 ELSE s[i]]

(***************************************************************************)
(* C40Encoder (utils.ts).                                                  *)
(***************************************************************************)
\* getC40Value with the digits based at '0' instead of at C40 value 4
getC40ValueDigitBase(c) ==
    LET value == c % 256
    IN  IF value = 32 THEN 3
        ELSE IF value >= 48 /\ value <= 57 THEN value - 48
        ELSE IF value >= 65 /\ value <= 90 THEN value - 51
        ELSE -1

\* C40Encoder.getC40Value; -1 stands for the thrown Error
getC40Value(c) ==
    LET value == c % 256
    IN  IF value = 32 THEN 3
        ELSE IF value >= 48 /\ value <= 57 THEN value - 44
        ELSE IF value >= 65 /\ value <= 90 THEN value - 51
        ELSE -1

\* C40Encoder.getChar throws for the values this predicate rejects
getCharDefined(c40Value) == c40Value = 0 \/ (c40Value >= 3 /\ c40Value <= 39)

getChar(c40Value) ==
    IF c40Value = 3 THEN <<32>>
    ELSE IF c40Value >= 4 /\ c40Value <= 13 THEN <<c40Value + 44>>
    ELSE IF c40Value >= 14 /\ c40Value <= 39 THEN <<c40Value + 51>>
    ELSE <<>>

\* the normalisation at the head of C40Encoder.encode
C40DataString(string) ==
    replaceAll(replaceAll(replaceAll(toUpperCase(string), 60, 32), 13, -1), 10, -1)

\* the loop of C40Encoder.encode from the 0-based index i (i % 3 = 0)
RECURSIVE C40EncodeFrom(_, _)
C40EncodeFrom(ds, i) ==
    LET len == Len(ds) IN
    IF i >= len THEN Ok(<<>>)
    ELSE IF i + 2 < len THEN
        LET c1 == getC40Value(ds[i + 1])
            c2 == getC40Value(ds[i + 2])
            c3 == getC40Value(ds[i + 3])
            sum == (1600 * c1) + (40 * c2) + c3 + 1
            rest == C40EncodeFrom(ds, i + 3)
        IN  IF c1 = -1 \/ c2 = -1 \/ c3 = -1 \/ ~rest.ok THEN Err
            ELSE Ok(<<sum \div 256, sum % 256>> \o rest.val)
    ELSE IF i + 1 < len THEN
        LET c1 == getC40Value(ds[i + 1])
            c2 == getC40Value(ds[i + 2])
            sum == (1600 * c1) + (40 * c2) + 1
        IN  IF c1 = -1 \/ c2 = -1 THEN Err
            ELSE Ok(<<sum \div 256, sum % 256>>)
    ELSE Ok(<<254, ((ds[i + 1] % 256) + 1) % 256>>)

C40Encoder_encode(string) == C40EncodeFrom(C40DataString(string), 0)

\* one iteration of the loop of C40Encoder.decode, on the bytes i1 and i2
C40DecodePair(i1, i2) ==
    IF i1 = 254 THEN Ok(<<(IF i2 = 0 THEN 65535 ELSE i2 - 1)>>)
    ELSE
        LET v16 == (i1 * 256) + i2 - 1
            u1 == v16 \div 1600
            remainder == v16 - u1 * 1600
            u2 == remainder \div 40
            u3 == remainder - u2 * 40
        IN  IF ~getCharDefined(u1) \/ ~getCharDefined(u2) \/ ~getCharDefined(u3)
            THEN Err
            ELSE Ok(getChar(u1) \o getChar(u2) \o getChar(u3))

\* the characters of two runs of iterations, an error if either threw
C40DecodeJoin(left, right) ==
    IF ~left.ok \/ ~right.ok THEN Err ELSE Ok(left.val \o right.val)

\* the iterations idx, idx + 2, ... below end of the loop of
\* C40Encoder.decode (0-based idx), split in two runs so that long inputs
\* are evaluated at a small depth
RECURSIVE C40DecodeFrom(_, _, _)
C40DecodeFrom(bytes, idx, end) ==
    IF idx >= end THEN Ok(<<>>)
    ELSE IF idx + 2 >= end THEN C40DecodePair(bytes[idx + 1], bytes[idx + 2])
    ELSE C40DecodeJoin(
             C40DecodeFrom(bytes, idx, idx + 2 * (((end - idx + 1) \div 2) \div 2)),
             C40DecodeFrom(bytes, idx + 2 * (((end - idx + 1) \div 2) \div 2), end))

C40Encoder_decode(bytes) == C40DecodeFrom(bytes, 0, Len(bytes) - 1)

(***************************************************************************)
(* Numbers and digits: numberToBytesBE, bytesToNumberBE, parseInt,         *)
(* Number.prototype.toString, padStart.                                    *)
(***************************************************************************)
RECURSIVE Pow(_, _)
Pow(b, e) == IF e = 0 THEN 1 ELSE b * Pow(b, e - 1)

\* bytesToNumberBE (@noble/curves): the unsigned big-endian value
RECURSIVE bytesToNumberBE(_)
bytesToNumberBE(bytes) ==
    IF bytes = <<>> THEN 0
    ELSE bytesToNumberBE(SubSeq(bytes, 1, Len(bytes) - 1)) * 256 + bytes[Len(bytes)]

\* numberToBytesBE (@noble/curves): n in exactly len bytes, "number too large" otherwise
numberToBytesBE(n, len) ==
    IF n < 0 \/ (len < 4 /\ n >= Pow(256, len)) THEN Err
    ELSE Ok([i \in 1..len |-> IF len - i >= 4 THEN 0
                                ELSE (n \div Pow(256, len - i)) % 256])

\* n.toString() of a non-negative integer, as code units
RECURSIVE toDecimalString(_)
toDecimalString(n) ==
    IF n < 10 THEN <<48 + n>> ELSE Append(toDecimalString(n \div 10), 48 + (n % 10))

\* str.padStart(width, fill)
RECURSIVE padStart(_, _, _)
padStart(s, width, fill) ==
    IF Len(s) >= width THEN s ELSE padStart(<<fill>> \o s, width, fill)

IsDigit(c) == c >= 48 /\ c <= 57

\* the value of a string of decimal digits
RECURSIVE digitsValue(_)
digitsValue(s) ==
    IF s = <<>> THEN 0
    ELSE digitsValue(SubSeq(s, 1, Len(s) - 1)) * 10 + (s[Len(s)] - 48)

\* the longest prefix of s made of decimal digits
RECURSIVE digitPrefix(_)
digitPrefix(s) ==
    IF s = <<>> \/ ~IsDigit(Head(s)) THEN <<>> ELSE <<Head(s)>> \o digitPrefix(Tail(s))

RECURSIVE skipSpaces(_)
skipSpaces(s) == IF s # <<>> /\ Head(s) = 32 THEN skipSpaces(Tail(s)) ELSE s

\* parseInt(s) in radix 10: leading blanks, a sign, then digits; Err stands for NaN
parseInt(s) ==
    LET t == skipSpaces(s)
        neg == t # <<>> /\ Head(t) = 45
        u == IF t # <<>> /\ (Head(t) = 45 \/ Head(t) = 43) THEN Tail(t) ELSE t
        d == digitPrefix(u)
    IN  IF d = <<>> THEN Err
        ELSE Ok(IF neg THEN 0 - digitsValue(d) ELSE digitsValue(d))

(***************************************************************************)
(* JavaScript Date in local time: [year, month (0-based), date, time].     *)
(***************************************************************************)
IsLeapYear(y) == (y % 4 = 0 /\ y % 100 # 0) \/ y % 400 = 0

\* days of the 0-based month m of year y
DaysInMonth(y, m) ==
    IF m = 1 THEN (IF IsLeapYear(y) THEN 29 ELSE 28)
    ELSE IF m \in {3, 5, 8, 10} THEN 30 ELSE 31

\* MakeDay: a day number outside the month rolls into the months around it
RECURSIVE normalizeDay(_, _, _)
normalizeDay(y, m, d) ==
    IF d < 1 THEN
        LET py == IF m = 0 THEN y - 1 ELSE y
            pm == IF m = 0 THEN 11 ELSE m - 1
        IN  normalizeDay(py, pm, d + DaysInMonth(py, pm))
    ELSE IF d > DaysInMonth(y, m) THEN
        normalizeDay(IF m = 11 THEN y + 1 ELSE y, IF m = 11 THEN 0 ELSE m + 1,
                     d - DaysInMonth(y, m))
    ELSE [year |-> y, month |-> m, date |-> d, time |-> 0]

\* new Date(year, monthIndex, day): years 0..99 mean 1900..1999
newDate(year, monthIndex, day) ==
    LET yy == IF year >= 0 /\ year <= 99 THEN 1900 + year ELSE year
    IN  normalizeDay(yy + (monthIndex \div 12), monthIndex % 12, day)

(***************************************************************************)
(* DateEncoder (utils.ts).                                                 *)
(***************************************************************************)
DateEncoder_encode(date) ==
    LET str == padStart(toDecimalString(date.month + 1), 2, 48)
               \o padStart(toDecimalString(date.date), 2, 48)
               \o padStart(toDecimalString(date.year), 4, 48)
    IN  numberToBytesBE(digitsValue(str), 3)

DateEncoder_decode(date) ==
    IF Len(date) # 3 THEN Err
    ELSE LET intValue == bytesToNumberBE(date)
             day == (intValue % 1000000) \div 10000
             month == intValue \div 1000000
             year == intValue % 10000
         IN  Ok(newDate(year, month - 1, day))

\* '.' of a regular expression: every code unit but the line terminators
RegexDot(c) == c \notin {10, 13, 8232, 8233}

\* whether /(.{4})-(.{2})-(.{2})/ matches s at the 0-based index k
maskedDateMatchAt(s, k) ==
    /\ k + 10 <= Len(s)
    /\ s[k + 5] = 45
    /\ s[k + 8] = 45
    /\ \A j \in {1, 2, 3, 4, 6, 7, 9, 10} : RegexDot(s[k + j])

\* the 0-based index of the leftmost match of MASKED_DATE_REGEX in s, or -1
MASKED_DATE_REGEX(s) ==
    LET hits == {k \in 0..Len(s) : maskedDateMatchAt(s, k)}
    IN  IF hits = {} THEN -1 ELSE CHOOSE k \in hits : \A h \in hits : k <= h

\* the bit of the mask byte that stands for position i of MMDDYYYY: 0x80 >> i
maskBitWrong(i) == Pow(2, i)
maskBit(i) == Pow(2, 7 - i)

RECURSIVE maskOf(_, _)
maskOf(dateCharArray, i) ==
    IF i >= 8 THEN 0
    ELSE (IF i < Len(dateCharArray) /\ dateCharArray[i + 1] = 120 THEN maskBit(i) ELSE 0)
         + maskOf(dateCharArray, i + 1)

DateEncoder_encodeMaskedDate(date) ==
    LET k == MASKED_DATE_REGEX(date) IN
    IF k = -1 THEN Err
    ELSE
        LET formattedDate ==
                toLowerCase(SubSeq(date, 1, k)
                            \o SubSeq(date, k + 6, k + 7) \o SubSeq(date, k + 9, k + 10)
                            \o SubSeq(date, k + 1, k + 4)
                            \o SubSeq(date, k + 11, Len(date)))
            parsed == parseInt(replaceAll(formattedDate, 120, 48))
            dateInt == IF parsed.ok THEN parsed.val ELSE 0
            mask == maskOf(formattedDate, 0)
        IN  Ok(<<mask % 256, (dateInt \div 65536) % 256,
                 (dateInt \div 256) % 256, dateInt % 256>>)

DateEncoder_decodeMaskedDate(date) ==
    IF Len(date) # 4 THEN Err
    ELSE
        LET mask == date[1]
            intval == bytesToNumberBE(Tail(date))
            day == (intval % 1000000) \div 10000
            month == intval \div 1000000
            year == intval % 10000
            chars == padStart(toDecimalString(month), 2, 48)
                     \o padStart(toDecimalString(day), 2, 48)
                     \o padStart(toDecimalString(year), 4, 48)
            masked == [i \in 1..Len(chars) |->
                          IF i <= 8 /\ (mask \div Pow(2, 8 - i)) % 2 = 1
                          THEN 120 ELSE chars[i]]
        IN  Ok(toLowerCase(SubSeq(masked, 5, 8) \o <<45>> \o SubSeq(masked, 1, 2)
                           \o <<45>> \o SubSeq(masked, 3, 4)
                           \o SubSeq(masked, 9, Len(masked))))

(***************************************************************************)
(* DerTLV and parseTLVs (utils.ts).  A DerTLV is [tag, value].             *)
(***************************************************************************)
DerTLV(tag, value) == [tag |-> tag, value |-> value]

\* the DER length field in its shortest form (X.690 8.1.3)
getDerLengthMinimal(length) ==
    IF length <= 127 THEN <<length>>
    ELSE IF length <= 255 THEN <<129, length>>
    ELSE IF length <= 65535 THEN <<130, length \div 256, length % 256>>
    ELSE <<131, length \div 65536, (length \div 256) % 256, length % 256>>

\* DerTLV.getDerLength
DerTLV_getDerLength(length) ==
    IF length <= 127 THEN <<length % 256>>
    ELSE
        LET lengthBytes == numberToBytesBE(length, 4).val
            \* byteCount starts at 1 and grows while lengthBytes[byteCount] is 0
            byteCount ==
                IF lengthBytes[2] # 0 THEN 1
                ELSE IF lengthBytes[3] # 0 THEN 2
                ELSE IF lengthBytes[4] # 0 THEN 3
                ELSE 4
            actualLengthBytes == SubSeq(lengthBytes, 4 - byteCount + 1, 4)
            firstByte == 128 + Len(actualLengthBytes)
        IN  <<firstByte>> \o actualLengthBytes

\* DerTLV.encoded
DerTLV_encoded(tlv) ==
    <<tlv.tag % 256>> \o DerTLV_getDerLength(Len(tlv.value)) \o tlv.value

\* (length << 8) | byte on 32-bit integers
shiftInByte(length, byte) ==
    LET low24 == length % 16777216
        hi == low24 \div 65536
        lo == (low24 % 65536) * 256 + byte
    IN  (IF hi >= 128 THEN hi - 256 ELSE hi) * 16777216 + lo

\* the loop of DerTLV.decode over the length bytes i .. last (0-based)
RECURSIVE derLengthLoop(_, _, _, _)
derLengthLoop(derBytes, i, last, length) ==
    IF i > last THEN length
    ELSE derLengthLoop(derBytes, i + 1, last,
                       shiftInByte(length, IF i < Len(derBytes) THEN derBytes[i + 1] ELSE 0))

\* DerTLV.decode; Ok(Null) is the null it returns for no bytes
DerTLV_decode(derBytes) ==
    IF Len(derBytes) = 0 THEN Ok(Null)
    ELSE
        LET tag == derBytes[1]
            first == IF Len(derBytes) >= 2 THEN derBytes[2] ELSE 0
            lengthOfLength == IF first > 127 THEN first - 128 ELSE 0
            lengthByteCount == 1 + lengthOfLength
            length == IF first > 127
                      THEN derLengthLoop(derBytes, 2, 1 + lengthOfLength, 0)
                      ELSE first
        IN  Ok(DerTLV(tag, Slice(derBytes, 1 + lengthByteCount,
                                 1 + lengthByteCount + length)))

\* rawBytes[offset] & 0xff, 0 when offset is past the end
byteAt(rawBytes, offset) ==
    IF offset < Len(rawBytes) THEN rawBytes[offset + 1] ELSE 0

\* the while loop of parseTLVs from the 0-based position offset
RECURSIVE parseTLVsFrom(_, _)
parseTLVsFrom(rawBytes, offset) ==
    IF offset >= Len(rawBytes) THEN Ok(<<>>)
    ELSE IF offset + 1 >= Len(rawBytes) THEN Err
    ELSE
        LET tag == rawBytes[offset + 1]
            first == rawBytes[offset + 2]
            p == offset + 2
            extra == IF first = 129 THEN 1
                     ELSE IF first = 130 THEN 2
                     ELSE IF first = 131 THEN 3 ELSE 0
            le == IF first = 129 THEN byteAt(rawBytes, p)
                  ELSE IF first = 130
                       THEN byteAt(rawBytes, p) * 256 + byteAt(rawBytes, p + 1)
                  ELSE IF first = 131
                       THEN byteAt(rawBytes, p) * 65536 + byteAt(rawBytes, p + 1) * 256
                            + byteAt(rawBytes, p + 2)
                  ELSE first
            start == p + extra
        IN  IF first > 127 /\ extra = 0 THEN Err
            ELSE LET rest == parseTLVsFrom(rawBytes, start + le)
                 IN  IF rest.ok
                     THEN Ok(<<DerTLV(tag, Slice(rawBytes, start, start + le))>> \o rest.val)
                     ELSE Err

parseTLVs(rawBytes) == parseTLVsFrom(rawBytes, 0)

\* the length bytes that parseTLVs reads after the first one
parseTLVs_lengthBytes(first) ==
    IF first = 129 THEN 1 ELSE IF first = 130 THEN 2 ELSE IF first = 131 THEN 3 ELSE 0

\* le, the declared length, p being the position after the first length byte
parseTLVs_le(rawBytes, first, p) ==
    IF first = 129 THEN byteAt(rawBytes, p)
    ELSE IF first = 130 THEN byteAt(rawBytes, p) * 256 + byteAt(rawBytes, p + 1)
    ELSE IF first = 131
    THEN byteAt(rawBytes, p) * 65536 + byteAt(rawBytes, p + 1) * 256 + byteAt(rawBytes, p + 2)
    ELSE first

\* the position after an iteration if the length byte were not counted
parseTLVs_advanceTagOnly(offset, extra, le) == offset + 1 + extra + le

\* the position after an iteration that began at offset: two position++ for
\* the tag and the first length byte, one for every further length byte,
\* and position += le
parseTLVs_advance(offset, extra, le) == offset + 2 + extra + le

\* the TLV and the position after the iteration
parseTLVs_push(rawBytes, offset, tag, extra, le) ==
    Ok([position |-> parseTLVs_advance(offset, extra, le),
        tlv |-> DerTLV(tag, Slice(rawBytes, offset + 2 + extra, offset + 2 + extra + le))])

\* one run of the body of the while loop of parseTLVs from offset
parseTLVs_body(rawBytes, offset) ==
    IF offset + 1 >= Len(rawBytes) THEN Err
    ELSE IF rawBytes[offset + 2] > 127 /\ parseTLVs_lengthBytes(rawBytes[offset + 2]) = 0
    THEN Err
    ELSE parseTLVs_push(rawBytes, offset, rawBytes[offset + 1],
                        parseTLVs_lengthBytes(rawBytes[offset + 2]),
                        parseTLVs_le(rawBytes, rawBytes[offset + 2], offset + 2))

\* concatBytes(...list.map(i => i.encoded))
RECURSIVE encodeAll(_)
encodeAll(list) ==
    IF list = <<>> THEN <<>> ELSE DerTLV_encoded(Head(list)) \o encodeAll(Tail(list))

\* DerTLV.getDerInteger
DerTLV_getDerInteger(value) ==
    LET stripLimit == Len(value) - 1
        \* startIndex: the leading zero bytes, the last byte never stripped
        zeros == {k \in 0..Max(stripLimit, 0) :
                     \A j \in 1..k : j <= stripLimit /\ value[j] = 0}
        startIndex == CHOOSE k \in zeros : \A z \in zeros : z <= k
        positiveValue == IF value # <<>> /\ value[1] >= 128 THEN <<0>> \o value
                         ELSE Slice(value, startIndex, Len(value))
    IN  DerTLV_encoded(DerTLV(2, positiveValue))

(***************************************************************************)
(* AbstractECDSARawSignature (utils.ts): [r, s] with the tag of the        *)
(* subclass, 0xFF for VDSSignature and 0x7F for IDBSignature.              *)
(***************************************************************************)
Signature(r, s) == [r |-> r, s |-> s]

\* AbstractECDSARawSignature.encoded
Signature_encoded(TAG, sig) == DerTLV_encoded(DerTLV(TAG, sig.r \o sig.s))

\* AbstractECDSARawSignature.toDER
Signature_toDER(sig) ==
    DerTLV_encoded(DerTLV(48, DerTLV_getDerInteger(sig.r) \o DerTLV_getDerInteger(sig.s)))

\* AbstractECDSARawSignature.decode
Signature_decode(TAG, data) ==
    IF data = <<>> \/ data[1] # TAG THEN Err
    ELSE LET value == DerTLV_decode(data).val.value
             half == Len(value) \div 2
         IN  Ok(Signature(Slice(value, 0, half), Slice(value, half, Len(value))))

(***************************************************************************)
(* VDSHeader (vds/vds.ts).                                                 *)
(***************************************************************************)
\* n.toString(16)
RECURSIVE toHexString(_)
toHexString(n) ==
    LET d == n % 16
        c == IF d < 10 THEN 48 + d ELSE 87 + d
    IN  IF n < 16 THEN <<c>> ELSE Append(toHexString(n \div 16), c)

IsHexDigit(c) == IsDigit(c) \/ (c >= 65 /\ c <= 70) \/ (c >= 97 /\ c <= 102)

hexDigitValue(c) == IF IsDigit(c) THEN c - 48 ELSE IF c >= 97 THEN c - 87 ELSE c - 55

RECURSIVE hexPrefix(_)
hexPrefix(s) ==
    IF s = <<>> \/ ~IsHexDigit(Head(s)) THEN <<>> ELSE <<Head(s)>> \o hexPrefix(Tail(s))

RECURSIVE hexValue(_)
hexValue(s) ==
    IF s = <<>> THEN 0
    ELSE hexValue(SubSeq(s, 1, Len(s) - 1)) * 16 + hexDigitValue(s[Len(s)])

\* parseInt(s, 16): leading blanks, a sign, an optional 0x, then hex digits; Err is NaN
parseInt16(s) ==
    LET t == skipSpaces(s)
        neg == t # <<>> /\ Head(t) = 45
        u == IF t # <<>> /\ (Head(t) = 45 \/ Head(t) = 43) THEN Tail(t) ELSE t
        v == IF Len(u) >= 2 /\ u[1] = 48 /\ (u[2] = 88 \/ u[2] = 120)
             THEN SubSeq(u, 3, Len(u)) ELSE u
        d == hexPrefix(v)
    IN  IF d = <<>> THEN Err
        ELSE Ok(IF neg THEN 0 - hexValue(d) ELSE hexValue(d))

\* new VDSHeader(...): the range checks of the constructor
VDSHeader(issuingCountry, signerIdentifier, certificateReference, issuingDate, sigDate, docFeatureRef, docTypeCat, rawVersion) ==
    IF ~(docFeatureRef >= 1 /\ docFeatureRef <= 254) THEN Err
    ELSE IF ~(docTypeCat >= 1 /\ docTypeCat <= 253) THEN Err
    ELSE Ok([issuingCountry |-> issuingCountry,
             signerIdentifier |-> signerIdentifier,
             certificateReference |-> certificateReference,
             issuingDate |-> issuingDate,
             sigDate |-> sigDate,
             docFeatureRef |-> docFeatureRef,
             docTypeCat |-> docTypeCat,
             rawVersion |-> rawVersion,
             _offset |-> 0])

\* get documentRef
VDSHeader_documentRef(header) ==
    ((header.docFeatureRef % 256) * 256) + (header.docTypeCat % 256)

\* set documentRef
VDSHeader_setDocumentRef(header, documentRef) ==
    [header EXCEPT !.docFeatureRef = (documentRef \div 256) % 256,
                   !.docTypeCat = documentRef % 256]

\* get version
VDSHeader_version(header) == header.rawVersion + 1

\* get encodedSignerIdentifierAndCertificateReference with the padding
\* after the reference
encodedSignerIdentifierAndCertificateReferencePadEnd(header) ==
    IF header.rawVersion = 2 THEN
        IF Len(header.certificateReference) > 5 THEN Err
        ELSE Ok(replaceAll(toUpperCase(header.signerIdentifier
                                       \o header.certificateReference
                                       \o [i \in 1..(5 - Len(header.certificateReference))
                                             |-> 32]),
                           32, 48))
    ELSE IF header.rawVersion = 3 THEN
        LET certRef == header.certificateReference
        IN  Ok(toUpperCase(header.signerIdentifier
                           \o padStart(toHexString(Len(certRef)), 2, 48) \o certRef))
    ELSE Ok(<<>>)

\* get encodedSignerIdentifierAndCertificateReference
encodedSignerIdentifierAndCertificateReference(header) ==
    IF header.rawVersion = 2 THEN
        IF Len(header.certificateReference) > 5 THEN Err
        ELSE Ok(replaceAll(toUpperCase(header.signerIdentifier
                                       \o padStart(header.certificateReference, 5, 32)),
                           32, 48))
    ELSE IF header.rawVersion = 3 THEN
        LET certRef == header.certificateReference
        IN  Ok(toUpperCase(header.signerIdentifier
                           \o padStart(toHexString(Len(certRef)), 2, 48) \o certRef))
    ELSE Ok(<<>>)

\* C40Encoder.encode of a string whose computation may have thrown
C40Encoder_encodeResult(string) ==
    IF string.ok THEN C40Encoder_encode(string.val) ELSE Err

\* the buffer of get encoded, from the encoded country, signer and dates
VDSHeader_buffer(header, country, signer, issuing, signing) ==
    IF ~country.ok \/ ~signer.ok \/ ~issuing.ok \/ ~signing.ok THEN Err
    ELSE Ok(<<220, header.rawVersion % 256>> \o country.val \o signer.val
            \o issuing.val \o signing.val
            \o <<header.docFeatureRef % 256, header.docTypeCat % 256>>)

\* get encoded
VDSHeader_encoded(header) ==
    VDSHeader_buffer(header,
                     C40Encoder_encode(header.issuingCountry),
                     C40Encoder_encodeResult(
                         encodedSignerIdentifierAndCertificateReference(header)),
                     DateEncoder_encode(header.issuingDate),
                     DateEncoder_encode(header.sigDate))

\* the tail of VDSHeader.decode: both dates, both document bytes, the constructor
VDSHeader_decodeTail(data, offset, issuingCountry, signerIdentifier, certificateReference, rawVersion) ==
    LET issuingDate == DateEncoder_decode(Slice(data, offset, offset + 3))
        sigDate == DateEncoder_decode(Slice(data, offset + 3, offset + 6))
        \* -1 stands for the undefined read past the end of data
        docFeatureRef == IF offset + 6 < Len(data) THEN data[offset + 7] ELSE -1
        docTypeCat == IF offset + 7 < Len(data) THEN data[offset + 8] ELSE -1
    IN  IF ~issuingDate.ok \/ ~sigDate.ok THEN Err
        ELSE LET decoded == VDSHeader(issuingCountry, signerIdentifier,
                                      certificateReference, issuingDate.val,
                                      sigDate.val, docFeatureRef, docTypeCat, rawVersion)
             IN  IF decoded.ok THEN Ok([decoded.val EXCEPT !._offset = offset + 8])
                 ELSE Err

\* the bytes of a certificate reference, with the quotient rounded up
bytesToDecodeCeil(certRefLength) == (((certRefLength + 1) \div 3) * 2) + 2

\* const bytesToDecode: the bytes of a certificate reference of the declared
\* length (Math.floor rounds towards minus infinity, as \div does)
bytesToDecode(certRefLength) == (((certRefLength - 1) \div 3) * 2) + 2

\* VDSHeader.decode
VDSHeader_decode(data) ==
    IF Len(data) < 1 \/ data[1] # 220 THEN Err
    ELSE IF Len(data) < 2 \/ ~(data[2] = 2 \/ data[2] = 3) THEN Err
    ELSE
        LET rawVersion == data[2]
            issuingCountry == C40Encoder_decode(Slice(data, 2, 4))
        IN  IF ~issuingCountry.ok THEN Err
            ELSE IF rawVersion = 3 THEN
                LET signerIdentifierAndCertRefLength == C40Encoder_decode(Slice(data, 4, 8)) IN
                IF ~signerIdentifierAndCertRefLength.ok THEN Err
                ELSE
                    LET str == signerIdentifierAndCertRefLength.val
                        certRefLength == parseInt16(Slice(str, 4, Len(str)))
                    IN  \* NaN: every later slice is empty and DateEncoder.decode throws
                        IF ~certRefLength.ok THEN Err
                        ELSE
                            LET certificateReference ==
                                    C40Encoder_decode(
                                        Slice(data, 8, 8 + bytesToDecode(certRefLength.val)))
                            IN  IF ~certificateReference.ok THEN Err
                                ELSE VDSHeader_decodeTail(data,
                                                          8 + bytesToDecode(certRefLength.val),
                                                          issuingCountry.val, Slice(str, 0, 4),
                                                          certificateReference.val, rawVersion)
            ELSE
                LET signerCertRef == C40Encoder_decode(Slice(data, 4, 10)) IN
                IF ~signerCertRef.ok THEN Err
                ELSE VDSHeader_decodeTail(data, 10, issuingCountry.val,
                                          Slice(signerCertRef.val, 0, 4),
                                          Slice(signerCertRef.val, 4, Len(signerCertRef.val)),
                                          rawVersion)

(***************************************************************************)
(* Seal (vds/vds.ts): [header, messageList, signature].                    *)
(***************************************************************************)
Seal(header, messageList, signature) ==
    [header |-> header, messageList |-> messageList, signature |-> signature]

\* concatBytes(header, ...rest), header being the outcome of header.encoded
concatToHeader(header, rest) ==
    IF ~header.ok THEN Err ELSE Ok(header.val \o rest)

\* get signedBytes with the signature's TLV counted in
Seal_signedBytesWithSignature(s) ==
    concatToHeader(VDSHeader_encoded(s.header),
                   encodeAll(s.messageList)
                   \o (IF s.signature = Null THEN <<>>
                       ELSE Signature_encoded(255, s.signature)))

\* get signedBytes
Seal_signedBytes(s) ==
    concatToHeader(VDSHeader_encoded(s.header), encodeAll(s.messageList))

\* get signatureBytes
Seal_signatureBytes(s) ==
    IF s.signature = Null THEN Null ELSE Signature_toDER(s.signature)

\* get encoded, from the signed bytes
Seal_encodedFrom(encoded, s) ==
    IF ~encoded.ok THEN Err
    ELSE IF s.signature # Null
    THEN Ok(encoded.val \o Signature_encoded(255, s.signature))
    ELSE encoded

\* get encoded
Seal_encoded(s) == Seal_encodedFrom(Seal_signedBytes(s), s)

\* the loop of Seal.decode if the TLV of tag 0xFF were kept in messageList too
RECURSIVE Seal_decodeLoopKeepsSignatureTLV(_, _, _)
Seal_decodeLoopKeepsSignatureTLV(tlvs, messageList, signature) ==
    IF tlvs = <<>> THEN Ok([messageList |-> messageList, signature |-> signature])
    ELSE LET i == Head(tlvs) IN
         IF i.tag = 255 THEN
             LET sig == Signature_decode(255, DerTLV_encoded(i))
             IN  IF sig.ok
                 THEN Seal_decodeLoopKeepsSignatureTLV(Tail(tlvs), Append(messageList, i), sig.val)
                 ELSE Err
         ELSE Seal_decodeLoopKeepsSignatureTLV(Tail(tlvs), Append(messageList, i), signature)

\* the for loop of Seal.decode over the parsed TLVs
RECURSIVE Seal_decodeLoop(_, _, _)
Seal_decodeLoop(tlvs, messageList, signature) ==
    IF tlvs = <<>> THEN Ok([messageList |-> messageList, signature |-> signature])
    ELSE LET i == Head(tlvs) IN
         IF i.tag = 255 THEN
             LET sig == Signature_decode(255, DerTLV_encoded(i))
             IN  IF sig.ok THEN Seal_decodeLoop(Tail(tlvs), messageList, sig.val) ELSE Err
         ELSE Seal_decodeLoop(Tail(tlvs), Append(messageList, i), signature)

\* new Seal(header, messageList, signature) at the end of Seal.decode
Seal_decodeResult(header, parts) ==
    IF parts.ok THEN Ok(Seal(header, parts.val.messageList, parts.val.signature))
    ELSE Err

\* the for loop of Seal.decode over what parseTLVs returned
Seal_decodeTLVs(header, tlvs) ==
    IF ~tlvs.ok THEN Err
    ELSE Seal_decodeResult(header, Seal_decodeLoop(tlvs.val, <<>>, Null))

\* Seal.decode after the header was decoded
Seal_decodeBody(header, data) ==
    IF ~header.ok THEN Err
    ELSE Seal_decodeTLVs(header.val,
                         parseTLVs(Slice(data, header.val._offset, Len(data))))

\* Seal.decode
Seal_decode(data) == Seal_decodeBody(VDSHeader_decode(data), data)

(***************************************************************************)
(* The curve library (@noble/curves ECDSA) and the hash library, as the    *)
(* calls of crypto.ts use them.  A private key is [id, length]; its public *)
(* key in uncompressed form is [id, 2 * length + 1].  A digest is          *)
(* [alg, sum].  sign returns r || s, each of the private key's length.     *)
(***************************************************************************)
RECURSIVE byteSumRange(_, _, _)
byteSumRange(bytes, lo, hi) ==
    IF lo > hi THEN 0
    ELSE IF lo = hi THEN bytes[lo] % 251
    ELSE LET mid == (lo + hi) \div 2
         IN  (byteSumRange(bytes, lo, mid) + byteSumRange(bytes, mid + 1, hi)) % 251

byteSum(bytes) == byteSumRange(bytes, 1, Len(bytes))

\* sha224 / sha256 / sha384 / sha512 (@noble/hashes)
Hash(alg, data) == [alg |-> alg, sum |-> byteSum(data)]

\* lead, then filler bytes up to n bytes
fixedWidth(lead, n) == [i \in 1..n |-> IF i <= Len(lead) THEN lead[i] ELSE 17]

\* the r values a signature of n-byte integers may carry: the high bit set or
\* clear, with or without a leading zero byte
CurveR(n) == {fixedWidth(lead, n) : lead \in {<<0, 128>>, <<0, 5>>, <<200>>}}

\* the s values that make (r, s) a signature of digest under the key id
CurveS(n, digest, id) ==
    {fixedWidth(lead \o <<id, digest.sum>>, n) : lead \in {<<0, 130>>, <<9>>}}

\* curve.sign(message, privateKey, {prehash}): every r || s it may return
curve_sign(message, privateKey, prehash) ==
    LET digest == IF prehash THEN Hash("curve", message) ELSE message
    IN  {r \o s : r \in CurveR(privateKey.length),
                  s \in CurveS(privateKey.length, digest, privateKey.id)}

\* an unsigned big-endian integer without its leading zero bytes
RECURSIVE stripZeros(_)
stripZeros(bytes) ==
    IF bytes # <<>> /\ Head(bytes) = 0 THEN stripZeros(Tail(bytes)) ELSE bytes

\* DER._tlv.decode of the library: the tag, a minimal definite length, the value
\* (the library takes up to four length bytes; four always give a length
\* beyond the data at hand, so they are refused here with the longer ones)
derReadTLV(tag, data) ==
    IF Len(data) < 2 \/ data[1] # tag THEN Err
    ELSE
        LET first == data[2]
            lenLen == IF first >= 128 THEN first - 128 ELSE 0
            lengthBytes == Slice(data, 2, 2 + lenLen)
            length == IF first < 128 THEN first ELSE bytesToNumberBE(lengthBytes)
            pos == 2 + lenLen
        IN  IF first >= 128 /\ (lenLen = 0 \/ lenLen > 3 \/ Len(lengthBytes) < lenLen) THEN Err
            ELSE IF first >= 128 /\ (lengthBytes[1] = 0 \/ length < 128) THEN Err
            ELSE IF Len(data) < pos + length THEN Err
            ELSE Ok([value |-> Slice(data, pos, pos + length),
                     rest |-> Slice(data, pos + length, Len(data))])

\* DER._int.decode of the library: no negative integer, no unnecessary leading zero
derReadInt(content) ==
    IF content = <<>> THEN Err
    ELSE IF content[1] >= 128 THEN Err
    ELSE IF content[1] = 0 /\ Len(content) >= 2 /\ content[2] < 128 THEN Err
    ELSE Ok(stripZeros(content))

\* the two integers read, r and s
derReadPair(r, s) ==
    IF r.ok /\ s.ok THEN Ok([r |-> r.val, s |-> s.val]) ELSE Err

\* the INTEGER of s, after that of r
derReadS(rTLV, sTLV) ==
    IF ~sTLV.ok \/ sTLV.val.rest # <<>> THEN Err
    ELSE derReadPair(derReadInt(rTLV.val.value), derReadInt(sTLV.val.value))

\* the INTEGER of r, then that of s
derReadR(rTLV) ==
    IF ~rTLV.ok THEN Err ELSE derReadS(rTLV, derReadTLV(2, rTLV.val.rest))

\* the content of the SEQUENCE
derReadSequence(seq) ==
    IF ~seq.ok \/ seq.val.rest # <<>> THEN Err
    ELSE derReadR(derReadTLV(2, seq.val.value))

\* Signature.fromBytes(signature, "der")
derReadSignature(signatureDER) == derReadSequence(derReadTLV(48, signatureDER))

\* curve.verify(signature, message, publicKey, {format: "der", lowS: false, prehash});
\* a signature that is no DER makes it throw
curve_verifyParsed(sig, digest, n, id) ==
    IF ~sig.ok THEN Err
    ELSE Ok(\E r \in CurveR(n), s \in CurveS(n, digest, id) :
                stripZeros(r) = sig.val.r /\ stripZeros(s) = sig.val.s)

curve_verify(signatureDER, message, publicKey, prehash) ==
    curve_verifyParsed(derReadSignature(signatureDER),
                       IF prehash THEN Hash("curve", message) ELSE message,
                       (publicKey.length - 1) \div 2, publicKey.id)

(***************************************************************************)
(* Signer and Verifier (crypto.ts).                                        *)
(***************************************************************************)
\* a digest choice whose ranges end one bit early
digestForFieldSizeBelow(fieldSize) ==
    IF fieldSize < 224 THEN "sha224"
    ELSE IF fieldSize < 256 THEN "sha256"
    ELSE IF fieldSize < 384 THEN "sha384"
    ELSE IF fieldSize < 512 THEN "sha512"
    ELSE "none"

\* the digest chosen for a field size; "none" stands for the thrown Error
digestForFieldSize(fieldSize) ==
    IF fieldSize <= 224 THEN "sha224"
    ELSE IF fieldSize >= 225 /\ fieldSize <= 256 THEN "sha256"
    ELSE IF fieldSize >= 257 /\ fieldSize <= 384 THEN "sha384"
    ELSE IF fieldSize >= 385 /\ fieldSize <= 512 THEN "sha512"
    ELSE "none"

\* Verifier.fieldSize
Verifier_fieldSize(publicKey) == (publicKey.length - 1) * 4

\* Signer.fieldSize
Signer_fieldSize(privateKey) == privateKey.length * 8

\* dataToSign / dataToVerify: seal.signedBytes, or its digest unless prehash
dataToSignOrVerify(signedBytes, fieldSize, prehash) ==
    IF ~signedBytes.ok THEN Err
    ELSE IF prehash THEN signedBytes
    ELSE IF digestForFieldSize(fieldSize) = "none" THEN Err
    ELSE Ok(Hash(digestForFieldSize(fieldSize), signedBytes.val))

\* Signer.signSeal from the call of curve.sign on: every VDSSignature it may return
Signer_signData(privateKey, dataToSign, prehash) ==
    IF ~dataToSign.ok THEN {}
    ELSE {Signature(Slice(signature, 0, Len(signature) \div 2),
                    Slice(signature, Len(signature) \div 2, Len(signature))) :
             signature \in curve_sign(dataToSign.val, privateKey, prehash)}

\* Signer.signSeal; the empty set stands for the thrown Error
Signer_signSeal(privateKey, s, prehash) ==
    Signer_signData(privateKey,
                    dataToSignOrVerify(Seal_signedBytes(s), Signer_fieldSize(privateKey),
                                       prehash),
                    prehash)

\* Verifier.verifySeal from the call of curve.verify on
Verifier_verifyData(publicKey, signatureBytes, dataToVerify, prehash) ==
    IF ~dataToVerify.ok THEN Err
    ELSE curve_verify(signatureBytes, dataToVerify.val, publicKey, prehash)

\* Verifier.verifySeal
Verifier_verifySeal(publicKey, s, prehash) ==
    IF s.signature = Null THEN Err
    ELSE Verifier_verifyData(publicKey, Seal_signatureBytes(s),
                             dataToSignOrVerify(Seal_signedBytes(s),
                                                Verifier_fieldSize(publicKey), prehash),
                             prehash)

(***************************************************************************)
(* base32nopad (@scure/base) and deflate / inflate (pako), as idb.ts uses  *)
(* them: each pair is taken as two exact inverses, the decoder refusing    *)
(* every text that the encoder does not produce.  The text of a byte is    *)
(* two characters of the base-32 alphabet; the deflated form of bytes is a *)
(* two-byte header, the bytes shifted by one, and a check byte.            *)
(***************************************************************************)
\* the i-th character of ABCDEFGHIJKLMNOPQRSTUVWXYZ234567
base32Char(i) == IF i < 26 THEN 65 + i ELSE 24 + i

\* the index of a character of the alphabet, -1 for any other
base32Index(c) ==
    IF c >= 65 /\ c <= 90 THEN c - 65
    ELSE IF c >= 50 /\ c <= 55 THEN c - 24
    ELSE -1

\* base32nopad.encode
base32nopad_encode(bytes) ==
    [k \in 1..(2 * Len(bytes)) |->
        IF k % 2 = 1 THEN base32Char(bytes[(k + 1) \div 2] \div 8)
        ELSE base32Char(bytes[k \div 2] % 8)]

\* base32nopad.decode
base32nopad_decode(str) ==
    IF Len(str) % 2 # 0 THEN Err
    ELSE IF \E k \in 1..Len(str) :
                \/ base32Index(str[k]) = -1
                \/ (k % 2 = 0 /\ base32Index(str[k]) >= 8)
    THEN Err
    ELSE Ok([i \in 1..(Len(str) \div 2) |->
                (base32Index(str[(2 * i) - 1]) * 8) + base32Index(str[2 * i])])

\* deflate(bytes, {level: 9})
deflate(bytes) ==
    <<120, 218>> \o [k \in 1..Len(bytes) |-> (bytes[k] + 1) % 256] \o <<byteSum(bytes)>>

\* the bytes of a deflated form, before its check byte is compared
inflateBody(data) == [k \in 1..(Len(data) - 3) |-> (data[k + 2] + 255) % 256]

\* inflate
inflate(data) ==
    IF Len(data) < 3 \/ data[1] # 120 \/ data[2] # 218 THEN Err
    ELSE IF data[Len(data)] # byteSum(inflateBody(data)) THEN Err
    ELSE Ok(inflateBody(data))

(***************************************************************************)
(* IDBHeader, IDBPayload, ICAOBarcode (idb/idb.ts).                        *)
(***************************************************************************)
\* new IDBHeader(...)
IDBHeader(countryIdentifier, signatureAlgorithm, certificateReference, signatureCreationDate) ==
    [countryIdentifier |-> countryIdentifier,
     signatureAlgorithm |-> signatureAlgorithm,
     certificateReference |-> certificateReference,
     signatureCreationDate |-> signatureCreationDate]

\* a value of a field that may be null
Some(value) == [null |-> FALSE, val |-> value]

\* if(value) of a number or null: null and 0 are falsy
TruthyNumber(value) == value # Null /\ value.val # 0

\* if(value) of a string or null: null and "" are falsy
TruthyString(value) == value # Null /\ value.val # <<>>

\* DateEncoder.encodeMaskedDate(this.signatureCreationDate), if there is a date
IDBHeader_dateEncoded(header) ==
    IF TruthyString(header.signatureCreationDate)
    THEN DateEncoder_encodeMaskedDate(header.signatureCreationDate.val)
    ELSE Ok(<<>>)

\* the buffer of get encoded, from the encoded country and date
IDBHeader_buffer(header, country, date) ==
    IF ~country.ok \/ ~date.ok THEN Err
    ELSE Ok(country.val
            \o (IF TruthyNumber(header.signatureAlgorithm)
                THEN <<header.signatureAlgorithm.val % 256>> ELSE <<>>)
            \o (IF header.certificateReference # Null
                THEN header.certificateReference.val ELSE <<>>)
            \o date.val)

\* IDBHeader: get encoded
IDBHeader_encoded(header) ==
    IDBHeader_buffer(header, C40Encoder_encode(header.countryIdentifier),
                     IDBHeader_dateEncoded(header))

\* IDBHeader.decode of more than two bytes, from the decoded country and date
IDBHeader_decodeLong(data, countryIdentifier, signatureCreationDate) ==
    IF ~signatureCreationDate.ok THEN Err
    ELSE Ok(IDBHeader(countryIdentifier, Some(data[3]), Some(Slice(data, 3, 8)),
                      Some(signatureCreationDate.val)))

\* IDBHeader.decode after the country was decoded
IDBHeader_decodeCountry(data, country) ==
    IF ~country.ok THEN Err
    ELSE IF Len(data) = 2
    THEN Ok(IDBHeader(replaceAll(country.val, 32, 60), Null, Null, Null))
    ELSE IDBHeader_decodeLong(data, replaceAll(country.val, 32, 60),
                              DateEncoder_decodeMaskedDate(Slice(data, 8, 12)))

\* IDBHeader.decode with a length check that lets one more byte in
IDBHeader_decodeUpTo13(data) ==
    IF ~(Len(data) >= 2 /\ Len(data) <= 13) THEN Err
    ELSE IDBHeader_decodeCountry(data, C40Encoder_decode(Slice(data, 0, 2)))

\* IDBHeader.decode
IDBHeader_decode(data) ==
    IF ~(Len(data) >= 2 /\ Len(data) <= 12) THEN Err
    ELSE IDBHeader_decodeCountry(data, C40Encoder_decode(Slice(data, 0, 2)))

\* new IDBPayload(...)
IDBPayload(header, messageList, signerCertificate, signature) ==
    [header |-> header, messageList |-> messageList,
     signerCertificate |-> signerCertificate, signature |-> signature]

\* get certificateEncoded
IDBPayload_certificateEncoded(payload) ==
    IF payload.signerCertificate # Null
    THEN DerTLV_encoded(DerTLV(126, payload.signerCertificate.val))
    ELSE Null

\* get messageListEncoded
IDBPayload_messageListEncoded(payload) ==
    DerTLV_encoded(DerTLV(97, encodeAll(payload.messageList)))

\* IDBPayload: get encoded, from the header's bytes
IDBPayload_encodedFrom(payload, header) ==
    IF ~header.ok THEN Err
    ELSE Ok(header.val \o IDBPayload_messageListEncoded(payload)
            \o (IF IDBPayload_certificateEncoded(payload) # Null
                THEN IDBPayload_certificateEncoded(payload) ELSE <<>>)
            \o (IF payload.signature # Null
                THEN Signature_encoded(127, payload.signature) ELSE <<>>))

\* IDBPayload: get encoded
IDBPayload_encoded(payload) ==
    IDBPayload_encodedFrom(payload, IDBHeader_encoded(payload.header))

\* the switch of IDBPayload.decode on one TLV; parts is what the loop holds
IDBPayload_decodeCase(i, parts, inner, sig) ==
    IF i.tag = 97 THEN
        IF inner.ok THEN Ok([parts EXCEPT !.messageList = Some(inner.val)]) ELSE Err
    ELSE IF i.tag = 126 THEN Ok([parts EXCEPT !.signerCertificate = Some(i.value)])
    ELSE IF i.tag = 127 THEN
        IF sig.ok THEN Ok([parts EXCEPT !.signature = sig.val]) ELSE Err
    ELSE Err

\* the for loop of IDBPayload.decode over the parsed TLVs
RECURSIVE IDBPayload_decodeLoop(_, _)
IDBPayload_decodeLoop(tlvs, parts) ==
    IF tlvs = <<>> \/ ~parts.ok THEN parts
    ELSE IDBPayload_decodeLoop(
             Tail(tlvs),
             IDBPayload_decodeCase(Head(tlvs), parts.val, parseTLVs(Head(tlvs).value),
                                   Signature_decode(127, DerTLV_encoded(Head(tlvs)))))

\* the end of IDBPayload.decode
IDBPayload_decodeResult(header, parts) ==
    IF ~parts.ok THEN Err
    ELSE IF parts.val.messageList = Null THEN Err
    ELSE Ok(IDBPayload(header, parts.val.messageList.val, parts.val.signerCertificate,
                       parts.val.signature))

\* IDBPayload.decode after the header was decoded and the rest parsed
IDBPayload_decodeBody(header, tlvs) ==
    IF ~header.ok \/ ~tlvs.ok THEN Err
    ELSE IDBPayload_decodeResult(
             header.val,
             IDBPayload_decodeLoop(tlvs.val,
                                   Ok([messageList |-> Null, signerCertificate |-> Null,
                                       signature |-> Null])))

\* the header size if the two sizes were taken the other way round
headerSizeSwapped(isSigned) == IF isSigned THEN 2 ELSE 12

\* the header size IDBPayload.decode takes
headerSize(isSigned) == IF isSigned THEN 12 ELSE 2

\* IDBPayload.decode
IDBPayload_decode(data, isSigned) ==
    IDBPayload_decodeBody(IDBHeader_decode(Slice(data, 0, headerSize(isSigned))),
                          parseTLVs(Slice(data, headerSize(isSigned), Len(data))))

\* new ICAOBarcode(isSigned, isZipped, payload)
ICAOBarcode(isSigned, isZipped, payload) ==
    [_flag |-> 65 + (IF isSigned THEN 1 ELSE 0) + (IF isZipped THEN 2 ELSE 0),
     payload |-> payload]

\* get isSigned
ICAOBarcode_isSigned(b) == ((b._flag - 65) % 2) = 1

\* get isZipped
ICAOBarcode_isZipped(b) == (((b._flag - 65) % 4) \div 2) = 1

\* get signedBytes with the signer certificate counted in
ICAOBarcode_signedBytesWithCertificate(b) ==
    concatToHeader(IDBHeader_encoded(b.payload.header),
                   IDBPayload_messageListEncoded(b.payload)
                   \o (IF b.payload.signerCertificate # Null
                       THEN IDBPayload_certificateEncoded(b.payload) ELSE <<>>))

\* ICAOBarcode: get signedBytes
ICAOBarcode_signedBytes(b) ==
    concatToHeader(IDBHeader_encoded(b.payload.header),
                   IDBPayload_messageListEncoded(b.payload))

\* ICAOBarcode: get signatureBytes
ICAOBarcode_signatureBytes(b) ==
    IF b.payload.signature # Null THEN Signature_toDER(b.payload.signature) ELSE Null

\* ICAOBarcode: get encoded, from the payload's bytes; "RDB1", the flag, the text
ICAOBarcode_encodedFrom(b, payloadBytes) ==
    IF ~payloadBytes.ok THEN Err
    ELSE Ok(<<82, 68, 66, 49, b._flag>>
            \o base32nopad_encode(IF ICAOBarcode_isZipped(b)
                                  THEN deflate(payloadBytes.val)
                                  ELSE payloadBytes.val))

\* ICAOBarcode: get encoded
ICAOBarcode_encoded(b) == ICAOBarcode_encodedFrom(b, IDBPayload_encoded(b.payload))

\* the end of ICAOBarcode.decode
ICAOBarcode_decodeResult(isSigned, isZipped, payload) ==
    IF ~payload.ok THEN Err ELSE Ok(ICAOBarcode(isSigned, isZipped, payload.val))

\* ICAOBarcode.decode: inflate if zipped, then IDBPayload.decode
ICAOBarcode_decodeBytes(isSigned, isZipped, payloadBytes) ==
    IF ~payloadBytes.ok THEN Err
    ELSE ICAOBarcode_decodeResult(isSigned, isZipped,
                                  IDBPayload_decode(payloadBytes.val, isSigned))

\* inflate(payloadBytes) if isZipped
inflateIf(isZipped, payloadBytes) ==
    IF ~payloadBytes.ok THEN Err
    ELSE IF isZipped THEN inflate(payloadBytes.val) ELSE payloadBytes

\* ICAOBarcode.decode from the flag character on
ICAOBarcode_decodeFlag(data, isSigned, isZipped) ==
    ICAOBarcode_decodeBytes(isSigned, isZipped,
                            inflateIf(isZipped,
                                      base32nopad_decode(Slice(data, 5, Len(data)))))

\* ICAOBarcode.decode; "RDB1" or "NDB1", then the flag character
ICAOBarcode_decode(data) ==
    IF Slice(data, 0, 4) # <<82, 68, 66, 49>> /\ Slice(data, 0, 4) # <<78, 68, 66, 49>>
    THEN Err
    ELSE IF Len(data) < 5 THEN Err
    ELSE ICAOBarcode_decodeFlag(data, ((data[5] - 65) % 2) = 1,
                                (((data[5] - 65) % 4) \div 2) = 1)

(***************************************************************************)
(* TextDecoder / TextEncoder (UTF-8), as vds/feature.ts uses them.  A      *)
(* string is its UTF-16 code units.                                        *)
(***************************************************************************)
\* the byte at the 0-based index idx is there and lies in lo..hi
continuationAt(bytes, idx, lo, hi) ==
    idx < Len(bytes) /\ bytes[idx + 1] >= lo /\ bytes[idx + 1] <= hi

\* the least second byte after the lead byte b
lowerBoundary(b) == IF b = 224 THEN 160 ELSE IF b = 240 THEN 144 ELSE 128

\* the greatest second byte after the lead byte b
upperBoundary(b) == IF b = 237 THEN 159 ELSE IF b = 244 THEN 143 ELSE 191

\* the code units of a code point
codeUnits(cp) ==
    IF cp < 65536 THEN <<cp>>
    ELSE <<55296 + ((cp - 65536) \div 1024), 56320 + ((cp - 65536) % 1024)>>

\* the UTF-8 decoder from the 0-based index i; U+FFFD for every ill-formed part
RECURSIVE utf8DecodeFrom(_, _)
utf8DecodeFrom(bytes, i) ==
    IF i >= Len(bytes) THEN <<>>
    ELSE IF bytes[i + 1] <= 127 THEN <<bytes[i + 1]>> \o utf8DecodeFrom(bytes, i + 1)
    ELSE IF bytes[i + 1] < 194 \/ bytes[i + 1] > 244
         \/ ~continuationAt(bytes, i + 1, lowerBoundary(bytes[i + 1]), upperBoundary(bytes[i + 1]))
    THEN <<65533>> \o utf8DecodeFrom(bytes, i + 1)
    ELSE IF bytes[i + 1] <= 223
    THEN <<((bytes[i + 1] - 192) * 64) + (bytes[i + 2] - 128)>> \o utf8DecodeFrom(bytes, i + 2)
    ELSE IF ~continuationAt(bytes, i + 2, 128, 191)
    THEN <<65533>> \o utf8DecodeFrom(bytes, i + 2)
    ELSE IF bytes[i + 1] <= 239
    THEN <<((bytes[i + 1] - 224) * 4096) + ((bytes[i + 2] - 128) * 64) + (bytes[i + 3] - 128)>>
         \o utf8DecodeFrom(bytes, i + 3)
    ELSE IF ~continuationAt(bytes, i + 3, 128, 191)
    THEN <<65533>> \o utf8DecodeFrom(bytes, i + 3)
    ELSE codeUnits(((bytes[i + 1] - 240) * 262144) + ((bytes[i + 2] - 128) * 4096)
                   + ((bytes[i + 3] - 128) * 64) + (bytes[i + 4] - 128))
         \o utf8DecodeFrom(bytes, i + 4)

\* new TextDecoder().decode(bytes): a byte order mark at the start is dropped
TextDecoder_decode(bytes) ==
    IF Len(bytes) >= 3 /\ SubSeq(bytes, 1, 3) = <<239, 187, 191>>
    THEN utf8DecodeFrom(bytes, 3)
    ELSE utf8DecodeFrom(bytes, 0)

\* the UTF-8 bytes of a code point
utf8Bytes(cp) ==
    IF cp < 128 THEN <<cp>>
    ELSE IF cp < 2048 THEN <<192 + (cp \div 64), 128 + (cp % 64)>>
    ELSE IF cp < 65536
    THEN <<224 + (cp \div 4096), 128 + ((cp \div 64) % 64), 128 + (cp % 64)>>
    ELSE <<240 + (cp \div 262144), 128 + ((cp \div 4096) % 64), 128 + ((cp \div 64) % 64),
           128 + (cp % 64)>>

\* the UTF-8 encoder from the 0-based index i; U+FFFD for a lone surrogate
RECURSIVE utf8EncodeFrom(_, _)
utf8EncodeFrom(str, i) ==
    IF i >= Len(str) THEN <<>>
    ELSE IF str[i + 1] >= 55296 /\ str[i + 1] <= 56319
            /\ i + 1 < Len(str) /\ str[i + 2] >= 56320 /\ str[i + 2] <= 57343
    THEN utf8Bytes(65536 + ((str[i + 1] - 55296) * 1024) + (str[i + 2] - 56320))
         \o utf8EncodeFrom(str, i + 2)
    ELSE IF str[i + 1] >= 55296 /\ str[i + 1] <= 57343
    THEN <<239, 191, 189>> \o utf8EncodeFrom(str, i + 1)
    ELSE utf8Bytes(str[i + 1]) \o utf8EncodeFrom(str, i + 1)

\* new TextEncoder().encode(str)
TextEncoder_encode(str) == utf8EncodeFrom(str, 0)

(***************************************************************************)
(* Features and schemas (vds/feature.ts).  A value of a feature is tagged  *)
(* with its JavaScript type.                                               *)
(***************************************************************************)
\* enum FeatureCoding
C40_STRING == 0

BINARY == 1

INT == 2

DATE == 3

MASKED_DATE == 4

MRZ == 10

UTF8_STRING == 11

FeatureCoding == {C40_STRING, BINARY, INT, DATE, MASKED_DATE, MRZ, UTF8_STRING}

\* a string, a Uint8Array, a bigint, a Date
JsString(str) == [string |-> str]

JsBytes(bytes) == [bytes |-> bytes]

JsBigInt(n) == [bigint |-> n]

JsDate(date) == [date |-> date]

\* interface Feature
Feature(tag, name, coding, required) ==
    [tag |-> tag, name |-> name, coding |-> coding, required |-> required]

\* interface SealSchema
SealSchema(documentRef, version, features) ==
    [documentRef |-> documentRef, version |-> version, features |-> features]

\* the bytes of a value that is not 0 from the least significant
RECURSIVE intToBytesLE_loop(_)
intToBytesLE_loop(v) ==
    IF v > 0 THEN <<v % 256>> \o intToBytesLE_loop(v \div 256) ELSE <<>>

\* intToBytesBE of a value that is not 0: the bytes from the most significant
RECURSIVE intToBytesBE_loop(_)
intToBytesBE_loop(v) ==
    IF v > 0 THEN Append(intToBytesBE_loop(v \div 256), v % 256) ELSE <<>>

\* intToBytesBE
intToBytesBE(value) ==
    IF value < 0 THEN Err
    ELSE IF value = 0 THEN Ok(<<0>>)
    ELSE Ok(intToBytesBE_loop(value))

\* messageList.find(i => i.tag == tag) that looks at the first message only
findFirstOnly(messageList, tag) ==
    IF messageList # <<>> /\ messageList[1].tag = tag THEN messageList[1] ELSE Null

\* messageList.find(i => i.tag == tag): the first message of the tag, or none
RECURSIVE find(_, _)
find(messageList, tag) ==
    IF messageList = <<>> THEN Null
    ELSE IF Head(messageList).tag = tag THEN Head(messageList)
    ELSE find(Tail(messageList), tag)

\* a decoded string as a value
stringValue(str) == IF str.ok THEN Ok(JsString(str.val)) ELSE Err

\* C40Encoder.decode(value).replaceAll(" ", "<") as a value
mrzValue(str) == IF str.ok THEN Ok(JsString(replaceAll(str.val, 32, 60))) ELSE Err

\* a decoded date as a value
dateValue(date) == IF date.ok THEN Ok(JsDate(date.val)) ELSE Err

\* the switch of mapSealToFeatures and decodeSeal on feature.coding
decodeFeature(coding, value) ==
    IF coding = C40_STRING THEN stringValue(C40Encoder_decode(value))
    ELSE IF coding = MRZ THEN mrzValue(C40Encoder_decode(value))
    ELSE IF coding = UTF8_STRING THEN Ok(JsString(TextDecoder_decode(value)))
    ELSE IF coding = BINARY THEN Ok(JsBytes(value))
    ELSE IF coding = DATE THEN dateValue(DateEncoder_decode(value))
    ELSE IF coding = MASKED_DATE THEN stringValue(DateEncoder_decodeMaskedDate(value))
    ELSE IF coding = INT THEN Ok(JsBigInt(bytesToNumberBE(value)))
    ELSE Err

\* result.set(name, value) and instance[name] = value: an object is the set
\* of its properties
setProperty(object, name, value) ==
    {e \in object : e.name # name} \cup {[name |-> name, value |-> value]}

\* object[name] is neither undefined nor null
hasProperty(object, name) == \E e \in object : e.name = name

\* object[name]
getProperty(object, name) == (CHOOSE e \in object : e.name = name).value

\* the for loop of mapSealToFeatures over the features that are left
RECURSIVE mapSealToFeatures_loop(_, _, _)
mapSealToFeatures_set(messageList, features, result, value) ==
    IF ~value.ok THEN Err
    ELSE mapSealToFeatures_loop(messageList, Tail(features),
                                setProperty(result, Head(features).name, value.val))

mapSealToFeatures_feature(messageList, features, result, message) ==
    IF message = Null /\ Head(features).required THEN Err
    ELSE IF message # Null
    THEN IF Head(features).coding \in FeatureCoding
         THEN mapSealToFeatures_set(messageList, features, result,
                                    decodeFeature(Head(features).coding, message.value))
         ELSE mapSealToFeatures_loop(messageList, Tail(features), result)
    ELSE mapSealToFeatures_loop(messageList, Tail(features), result)

mapSealToFeatures_loop(messageList, features, result) ==
    IF features = <<>> THEN Ok(result)
    ELSE mapSealToFeatures_feature(messageList, features, result,
                                   find(messageList, Head(features).tag))

\* mapSealToFeatures(seal, schema)
mapSealToFeatures(s, schema) ==
    IF VDSHeader_version(s.header) # schema.version THEN Err
    ELSE IF VDSHeader_documentRef(s.header) # schema.documentRef THEN Err
    ELSE mapSealToFeatures_loop(s.messageList, schema.features, {})

\* assertFeatureType passes: the type the coding expects, a Date that is valid
assertFeatureType(feature, value) ==
    IF feature.coding \in {C40_STRING, UTF8_STRING, MRZ, MASKED_DATE}
    THEN DOMAIN value = {"string"}
    ELSE IF feature.coding = BINARY THEN DOMAIN value = {"bytes"}
    ELSE IF feature.coding = INT THEN DOMAIN value = {"bigint"}
    ELSE IF feature.coding = DATE THEN DOMAIN value = {"date"}
    ELSE FALSE

\* a class with its entries in vdsDocumentStorage and vdsSchemaStorage
Constructor(name, document, schema) ==
    [name |-> name, document |-> document, schema |-> schema]

\* getSealSchema(ctor)
getSealSchema(ctor) ==
    IF ctor.document = Null THEN Err
    ELSE IF ctor.schema = Null THEN Err
    ELSE Ok(SealSchema(ctor.document.documentRef, ctor.document.version,
                       ctor.schema.features))

\* the for loop of decodeSeal over the features that are left
RECURSIVE decodeSeal_loop(_, _, _)
decodeSeal_assign(messageList, features, instance, value) ==
    IF ~value.ok THEN Err
    ELSE IF ~assertFeatureType(Head(features), value.val) THEN Err
    ELSE decodeSeal_loop(messageList, Tail(features),
                         setProperty(instance, Head(features).name, value.val))

decodeSeal_feature(messageList, features, instance, message) ==
    IF message = Null
    THEN IF Head(features).required THEN Err
         ELSE decodeSeal_loop(messageList, Tail(features), instance)
    ELSE decodeSeal_assign(messageList, features, instance,
                           decodeFeature(Head(features).coding, message.value))

decodeSeal_loop(messageList, features, instance) ==
    IF features = <<>> THEN Ok(instance)
    ELSE decodeSeal_feature(messageList, features, instance,
                            find(messageList, Head(features).tag))

\* decodeSeal after getSealSchema
decodeSeal_schema(s, schema) ==
    IF ~schema.ok THEN Err
    ELSE IF VDSHeader_version(s.header) # schema.val.version THEN Err
    ELSE IF VDSHeader_documentRef(s.header) # schema.val.documentRef THEN Err
    ELSE decodeSeal_loop(s.messageList, schema.val.features, {})

\* decodeSeal(seal, ctor)
decodeSeal(s, ctor) == decodeSeal_schema(s, getSealSchema(ctor))

\* the switch of encodeSeal on feature.coding
encodeFeature(coding, value) ==
    IF coding = C40_STRING \/ coding = MRZ THEN C40Encoder_encode(value.string)
    ELSE IF coding = UTF8_STRING THEN Ok(TextEncoder_encode(value.string))
    ELSE IF coding = BINARY THEN Ok(value.bytes)
    ELSE IF coding = DATE THEN DateEncoder_encode(value.date)
    ELSE IF coding = MASKED_DATE THEN DateEncoder_encodeMaskedDate(value.string)
    ELSE IF coding = INT THEN intToBytesBE(value.bigint)
    ELSE Err

\* the for loop of encodeSeal over the features that are left
RECURSIVE encodeSeal_loop(_, _, _)
encodeSeal_push(instance, features, result, encoded) ==
    IF ~encoded.ok THEN Err
    ELSE encodeSeal_loop(instance, Tail(features),
                         Append(result, DerTLV(Head(features).tag, encoded.val)))

encodeSeal_feature(instance, features, result) ==
    IF ~hasProperty(instance, Head(features).name)
    THEN IF Head(features).required THEN Err
         ELSE encodeSeal_loop(instance, Tail(features), result)
    ELSE IF ~assertFeatureType(Head(features), getProperty(instance, Head(features).name))
    THEN Err
    ELSE encodeSeal_push(instance, features, result,
                         encodeFeature(Head(features).coding,
                                       getProperty(instance, Head(features).name)))

encodeSeal_loop(instance, features, result) ==
    IF features = <<>> THEN Ok(result)
    ELSE encodeSeal_feature(instance, features, result)

\* encodeSeal after getSealSchema
encodeSeal_schema(instance, schema) ==
    IF ~schema.ok THEN Err ELSE encodeSeal_loop(instance, schema.val.features, <<>>)

\* encodeSeal(instance), instance being of the class ctor
encodeSeal(instance, ctor) == encodeSeal_schema(instance, getSealSchema(ctor))

\* if(message) of a property value: undefined, 0n and "" are falsy
Truthy(value) ==
    IF "bigint" \in DOMAIN value THEN value.bigint # 0
    ELSE IF "string" \in DOMAIN value THEN value.string # <<>>
    ELSE TRUE

\* the for loop of mapFeaturesToSeal over the features that are left
RECURSIVE mapFeaturesToSeal_loop(_, _, _)
mapFeaturesToSeal_push(mappedFeatures, features, result, encoded) ==
    IF ~encoded.ok THEN Err
    ELSE mapFeaturesToSeal_loop(mappedFeatures, Tail(features),
                                Append(result, DerTLV(Head(features).tag, encoded.val)))

mapFeaturesToSeal_feature(mappedFeatures, features, result) ==
    IF ~hasProperty(mappedFeatures, Head(features).name)
    THEN IF Head(features).required THEN Err
         ELSE mapFeaturesToSeal_loop(mappedFeatures, Tail(features), result)
    ELSE IF ~Truthy(getProperty(mappedFeatures, Head(features).name))
    THEN mapFeaturesToSeal_loop(mappedFeatures, Tail(features), result)
    ELSE mapFeaturesToSeal_push(mappedFeatures, features, result,
                                encodeFeature(Head(features).coding,
                                              getProperty(mappedFeatures, Head(features).name)))

mapFeaturesToSeal_loop(mappedFeatures, features, result) ==
    IF features = <<>> THEN Ok(result)
    ELSE mapFeaturesToSeal_feature(mappedFeatures, features, result)

\* mapFeaturesToSeal(mappedFeatures, schema)
mapFeaturesToSeal(mappedFeatures, schema) ==
    mapFeaturesToSeal_loop(mappedFeatures, schema.features, <<>>)

(***************************************************************************)
(* The decorators of vds/feature.ts and the two module-level maps they     *)
(* fill.  A map is a function on the set of its keys; a class is its name. *)
(***************************************************************************)
\* Map.prototype.has and Map.prototype.set
MapHas(map, key) == key \in DOMAIN map

MapSet(map, key, value) ==
    [k \in DOMAIN map \cup {key} |-> IF k = key THEN value ELSE map[k]]

\* VDSDocument(options)(target): whether it returned, and the map after it
VDSDocument(documents, target, options) ==
    IF MapHas(documents, target) THEN [ok |-> FALSE, storage |-> documents]
    ELSE [ok |-> TRUE,
          storage |-> MapSet(documents, target,
                             [documentRef |-> options.documentRef,
                              version |-> options.version])]

\* VDSProp: the schema of the class is created if there is none
VDSProp_schema(schemas, ctor) ==
    IF MapHas(schemas, ctor) THEN schemas ELSE MapSet(schemas, ctor, [features |-> <<>>])

\* VDSProp if the feature were pushed without the test for a duplicate tag
VDSProp_pushDuplicates(schemas, ctor, propertyKey, options) ==
    [ok |-> TRUE,
     storage |-> [schemas EXCEPT ![ctor].features =
                     Append(@, Feature(options.tag, propertyKey, options.coding,
                                       ~options.optional))]]

\* VDSProp: the test for a duplicate tag and schema.features.push
VDSProp_push(schemas, ctor, propertyKey, options) ==
    IF \E i \in 1..Len(schemas[ctor].features) :
          schemas[ctor].features[i].tag = options.tag
    THEN [ok |-> FALSE, storage |-> schemas]
    ELSE [ok |-> TRUE,
          storage |-> [schemas EXCEPT ![ctor].features =
                          Append(@, Feature(options.tag, propertyKey, options.coding,
                                            ~options.optional))]]

\* VDSProp(options)(target, propertyKey), ctor being target.constructor
VDSProp(schemas, ctor, propertyKey, options) ==
    VDSProp_push(VDSProp_schema(schemas, ctor), ctor, propertyKey, options)

\* a class with the entries that the two maps hold for it
StoredConstructor(documents, schemas, name) ==
    Constructor(name,
                IF MapHas(documents, name) THEN documents[name] ELSE Null,
                IF MapHas(schemas, name) THEN schemas[name] ELSE Null)

(***************************************************************************)
(* Specification SpecC40: C40Encoder.encode on a string, then              *)
(* C40Encoder.decode on the bytes it returned.                             *)
(***************************************************************************)
\* space, '<', digits and upper-case letters at the ends of their ranges
C40Alphabet == {32, 60, 48, 57, 65, 90}

RECURSIVE StringsUpTo(_, _)
StringsUpTo(alphabet, n) ==
    IF n = 0 THEN {<<>>}
    ELSE LET shorter == StringsUpTo(alphabet, n - 1)
         IN  shorter \cup {Append(s, c) : s \in {t \in shorter : Len(t) = n - 1},
                                          c \in alphabet}

InitC40 ==
    /\ op = "init"
    /\ input \in StringsUpTo(C40Alphabet, MaxStrLen)
    /\ output = Null
    /\ seal = NoSeal
    /\ barcode = NoBarcode
    /\ vdsDocumentStorage = NewMap
    /\ vdsSchemaStorage = NewMap
    /\ position = 0
    /\ derTlvList = <<>>

C40Encode ==
    /\ op = "init"
    /\ op' = "C40Encoder.encode"
    /\ output' = C40Encoder_encode(input)
    /\ UNCHANGED <<input, seal, barcode>>
    /\ UNCHANGED <<vdsDocumentStorage, vdsSchemaStorage, position, derTlvList>>

C40Decode ==
    /\ op = "C40Encoder.encode"
    /\ output.ok
    /\ op' = "C40Encoder.decode"
    /\ output' = C40Encoder_decode(output.val)
    /\ UNCHANGED <<input, seal, barcode>>
    /\ UNCHANGED <<vdsDocumentStorage, vdsSchemaStorage, position, derTlvList>>

NextC40 == C40Encode \/ C40Decode

SpecC40 == InitC40 /\ [][NextC40]_vars

\* C7: for every string s over A-Z, 0-9, space and '<', of length 0, 1 or 2
\* modulo 3, C40Encoder.encode(s) returns bytes and C40Encoder.decode of these
\* bytes is s upper-cased with every '<' replaced by a space.
C7_C40RoundTrip ==
    /\ (op = "C40Encoder.encode" => output.ok)
    /\ (op = "C40Encoder.decode" =>
            /\ output.ok
            /\ output.val = replaceAll(toUpperCase(input), 60, 32))

\* a decoded string of length 1 modulo 3 that held a '<' and a digit
C7_Witness ==
    /\ op = "C40Encoder.decode"
    /\ Len(input) = 4
    /\ input[4] = 60
    /\ input[1] = 48
    /\ output.ok
    /\ output.val = <<48, input[2], input[3], 32>>

(***************************************************************************)
(* Specification SpecMaskedDate: DateEncoder.encodeMaskedDate on a string  *)
(* yyyy-MM-dd, then DateEncoder.decodeMaskedDate on the bytes it returned. *)
(***************************************************************************)
\* candidates for each slot of yyyy-MM-dd: digits and 'x' (120)
MaskedDateInputs ==
    {<<y1, y2, y3, y4, 45, m1, m2, 45, d1, d2>> :
        y1 \in {49, 50, 120}, y2 \in {48, 57, 120}, y3 \in {57, 120},
        y4 \in {48, 57, 120},
        m1 \in {48, 49, 50, 57, 120}, m2 \in {48, 49, 50, 51, 57, 120},
        d1 \in {48, 49, 51, 52, 57, 120}, d2 \in {48, 49, 50, 57, 120}}

InitMaskedDate ==
    /\ op = "init"
    /\ input \in MaskedDateInputs
    /\ output = Null
    /\ seal = NoSeal
    /\ barcode = NoBarcode
    /\ vdsDocumentStorage = NewMap
    /\ vdsSchemaStorage = NewMap
    /\ position = 0
    /\ derTlvList = <<>>

EncodeMaskedDate ==
    /\ op = "init"
    /\ op' = "DateEncoder.encodeMaskedDate"
    /\ output' = DateEncoder_encodeMaskedDate(input)
    /\ UNCHANGED <<input, seal, barcode>>
    /\ UNCHANGED <<vdsDocumentStorage, vdsSchemaStorage, position, derTlvList>>

DecodeMaskedDate ==
    /\ op = "DateEncoder.encodeMaskedDate"
    /\ output.ok
    /\ op' = "DateEncoder.decodeMaskedDate"
    /\ output' = DateEncoder_decodeMaskedDate(output.val)
    /\ UNCHANGED <<input, seal, barcode>>
    /\ UNCHANGED <<vdsDocumentStorage, vdsSchemaStorage, position, derTlvList>>

NextMaskedDate == EncodeMaskedDate \/ DecodeMaskedDate

SpecMaskedDate == InitMaskedDate /\ [][NextMaskedDate]_vars

\* a two-character pattern of digits and 'x' that some number of lo..hi fits
PatternFits(p, lo, hi) ==
    \E n \in lo..hi :
        LET d == padStart(toDecimalString(n), 2, 48)
        IN  \A i \in 1..2 : p[i] = 120 \/ p[i] = d[i]

\* a masked date yyyy-MM-dd of digits and 'x' whose month fits 01..12 and day 01..31
ValidMaskedDate(s) ==
    /\ Len(s) = 10
    /\ s[5] = 45 /\ s[8] = 45
    /\ \A i \in {1, 2, 3, 4, 6, 7, 9, 10} : IsDigit(s[i]) \/ s[i] = 120
    /\ PatternFits(<<s[6], s[7]>>, 1, 12)
    /\ PatternFits(<<s[9], s[10]>>, 1, 31)

\* the positions of yyyy-MM-dd in the order MMDDYYYY
MMDDYYYY(s) == <<s[6], s[7], s[9], s[10], s[1], s[2], s[3], s[4]>>

\* C8: for every valid masked date s (yyyy-MM-dd, each position a digit or 'x'),
\* encodeMaskedDate(s) is exactly 4 bytes: the mask byte with bit 7-i set for
\* each masked position i of MMDDYYYY, then the 3-byte integer MMDDYYYY with the
\* masked digits taken as 0; and decodeMaskedDate of these bytes is s.
C8_MaskedDateRoundTrip ==
    ValidMaskedDate(input) =>
        /\ (op = "DateEncoder.encodeMaskedDate" =>
                /\ output.ok
                /\ Len(output.val) = 4
                /\ \A i \in 0..7 :
                       ((output.val[1] \div Pow(2, 7 - i)) % 2 = 1)
                           <=> (MMDDYYYY(input)[i + 1] = 120)
                /\ bytesToNumberBE(Tail(output.val))
                       = digitsValue(replaceAll(MMDDYYYY(input), 120, 48)))
        /\ (op = "DateEncoder.decodeMaskedDate" => output = Ok(input))

\* "19xx-xx-01" encoded to C3 00 2E 7C and decoded back
C8_Witness ==
    /\ op = "DateEncoder.decodeMaskedDate"
    /\ input = <<49, 57, 120, 120, 45, 120, 120, 45, 48, 49>>
    /\ output = Ok(input)

(***************************************************************************)
(* Specification SpecSeal: a seal is decoded from bytes or constructed,    *)
(* then read (get encoded), decoded again from the bytes it gave, signed,  *)
(* given a signature, or verified.                                         *)
(***************************************************************************)
\* TLVs after the header of a wire seal
MaxTLVs == 2

\* dc 03 "UTO" "UTTS" "02" "5B" 2020-01-01 2025-12-07 fb 06 (ICAO version 4)
WireHeaderV4 ==
    <<220, 3, 217, 197, 217, 202, 200, 167, 58, 153, 15, 113, 52, 184, 52, 89, 251, 6>>

\* dc 02 "UTO" "UTTS" "0005B" 2020-01-01 2025-12-07 fd 02 (ICAO version 3)
WireHeaderV3 ==
    <<220, 2, 217, 197, 217, 202, 200, 165, 26, 120, 15, 113, 52, 184, 52, 89, 253, 2>>

\* headers on the wire: the two above, a wrong magic byte, an unsupported
\* version, a docFeatureRef of 0
WireHeaders ==
    {WireHeaderV4, WireHeaderV3,
     [WireHeaderV4 EXCEPT ![1] = 221],
     [WireHeaderV4 EXCEPT ![2] = 4],
     [WireHeaderV4 EXCEPT ![17] = 0]}

\* a value of 128 bytes, the shortest that needs the long form of the length
LongValue == [i \in 1..128 |-> 170]

\* TLVs on the wire: short, long (81 80), empty, a signature, a long length
\* for a short value (81 01), a value cut short
WireTLVs ==
    {<<2, 2, 65, 66>>,
     <<3, 129, 128>> \o LongValue,
     <<4, 0>>,
     <<255, 4, 1, 2, 3, 4>>,
     <<5, 129, 1, 7>>,
     <<6, 3, 9>>}

RECURSIVE WireTLVLists(_)
WireTLVLists(n) ==
    IF n = 0 THEN {<<>>}
    ELSE LET shorter == WireTLVLists(n - 1)
         IN  shorter \cup {t \o l : t \in WireTLVs, l \in shorter}

WireSeals == {h \o l : h \in WireHeaders, l \in WireTLVLists(MaxTLVs)}

\* 2025-12-07 at 13:00
SealIssuingDate == [newDate(2025, 11, 7) EXCEPT !.time = 46800000]

\* "UTO" and "D<<"; "5B", "0005B" and "A1B2C3"
SealHeaders ==
    {VDSHeader(country, <<85, 84, 84, 83>>, certRef, SealIssuingDate,
               newDate(2025, 11, 7), 251, 6, rawVersion).val :
        country \in {<<85, 84, 79>>, <<68, 60, 60>>},
        certRef \in {<<53, 66>>, <<48, 48, 48, 53, 66>>, <<65, 49, 66, 50, 67, 51>>},
        rawVersion \in {2, 3}}

SealMessageLists ==
    {<<>>,
     <<DerTLV(2, <<65, 66>>)>>,
     <<DerTLV(4, <<>>), DerTLV(2, <<65, 66>>)>>,
     <<DerTLV(3, LongValue)>>}

SealSignatures == {Null, Signature(<<1, 2>>, <<3, 4>>)}

Seals ==
    {Seal(header, messageList, signature) :
        header \in SealHeaders, messageList \in SealMessageLists,
        signature \in SealSignatures}

\* private keys of 256-bit, 512-bit and 528-bit curves
PrivateKeys ==
    {[id |-> 1, length |-> 32], [id |-> 2, length |-> 32],
     [id |-> 1, length |-> 64], [id |-> 1, length |-> 66]}

\* the uncompressed public key of a private key
PublicKeyOf(privateKey) == [id |-> privateKey.id, length |-> (2 * privateKey.length) + 1]

PublicKeys == {PublicKeyOf(k) : k \in PrivateKeys}

InitSeal ==
    /\ op = "init"
    /\ input = Null
    /\ output = Null
    /\ seal = NoSeal
    /\ barcode = NoBarcode
    /\ vdsDocumentStorage = NewMap
    /\ vdsSchemaStorage = NewMap
    /\ position = 0
    /\ derTlvList = <<>>

\* seal = Seal.decode(data)
SealDecode ==
    /\ op = "init"
    /\ \E data \in WireSeals : \E decoded \in {Seal_decode(data)} :
          /\ input' = [kind |-> "bytes", val |-> data]
          /\ output' = decoded
          /\ seal' = IF decoded.ok THEN decoded.val ELSE NoSeal
    /\ op' = "Seal.decode"
    /\ UNCHANGED barcode
    /\ UNCHANGED <<vdsDocumentStorage, vdsSchemaStorage, position, derTlvList>>

\* seal = new Seal(header, messageList, signature)
SealNew ==
    /\ op = "init"
    /\ \E s \in Seals :
          /\ seal' = s
          /\ input' = [kind |-> "seal", val |-> s]
    /\ output' = Null
    /\ op' = "new Seal"
    /\ UNCHANGED barcode
    /\ UNCHANGED <<vdsDocumentStorage, vdsSchemaStorage, position, derTlvList>>

\* seal.encoded
SealEncoded ==
    /\ op \in {"Seal.decode", "new Seal", "set signature", "signSeal"}
    /\ seal # NoSeal
    /\ output' = Seal_encoded(seal)
    /\ op' = "Seal.encoded"
    /\ UNCHANGED <<input, seal, barcode>>
    /\ UNCHANGED <<vdsDocumentStorage, vdsSchemaStorage, position, derTlvList>>

\* Seal.decode(seal.encoded), the bytes being the ones seal.encoded just gave
SealDecodeEncoded ==
    /\ op = "Seal.encoded"
    /\ output.ok
    /\ \E decoded \in {Seal_decode(output.val)} :
          /\ output' = decoded
          /\ seal' = IF decoded.ok THEN decoded.val ELSE NoSeal
    /\ input' = [kind |-> "seal", val |-> seal]
    /\ op' = "Seal.decode(encoded)"
    /\ UNCHANGED barcode
    /\ UNCHANGED <<vdsDocumentStorage, vdsSchemaStorage, position, derTlvList>>

\* seal.signature = signature
SetSignature ==
    /\ op \in {"Seal.decode", "new Seal", "signSeal"}
    /\ seal # NoSeal
    /\ \E signature \in SealSignatures :
          /\ seal' = [seal EXCEPT !.signature = signature]
          /\ input' = [kind |-> "signature", val |-> signature]
    /\ output' = Null
    /\ op' = "set signature"
    /\ UNCHANGED barcode
    /\ UNCHANGED <<vdsDocumentStorage, vdsSchemaStorage, position, derTlvList>>

\* seal.signature = new Signer(curve, privateKey).signSeal(seal, prehash)
SignSeal ==
    /\ op = "new Seal"
    /\ seal # NoSeal
    /\ \E privateKey \in PrivateKeys, prehash \in BOOLEAN :
          \E signatures \in {Signer_signSeal(privateKey, seal, prehash)} :
          /\ input' = [kind |-> "signSeal", privateKey |-> privateKey, prehash |-> prehash]
          /\ \/ /\ signatures = {}
                /\ output' = Err
                /\ seal' = seal
             \/ \E signature \in signatures :
                   /\ output' = Ok(signature)
                   /\ seal' = [seal EXCEPT !.signature = signature]
    /\ op' = "signSeal"
    /\ UNCHANGED barcode
    /\ UNCHANGED <<vdsDocumentStorage, vdsSchemaStorage, position, derTlvList>>

\* new Verifier(curve, publicKey).verifySeal(seal, prehash)
VerifySeal ==
    /\ op \in {"Seal.decode", "new Seal", "set signature", "signSeal"}
    /\ seal # NoSeal
    /\ \E publicKey \in PublicKeys, prehash \in BOOLEAN :
          /\ input' = [kind |-> "verifySeal", publicKey |-> publicKey, prehash |-> prehash]
          /\ output' = Verifier_verifySeal(publicKey, seal, prehash)
    /\ op' = "verifySeal"
    /\ UNCHANGED <<seal, barcode>>
    /\ UNCHANGED <<vdsDocumentStorage, vdsSchemaStorage, position, derTlvList>>

NextSeal ==
    \/ SealDecode
    \/ SealNew
    \/ SealEncoded
    \/ SealDecodeEncoded
    \/ SetSignature
    \/ SignSeal
    \/ VerifySeal

SpecSeal == InitSeal /\ [][NextSeal]_vars

(***************************************************************************)
(* Specification SpecIDB: an ICAO barcode is decoded from a text or        *)
(* constructed, its signer certificate and signature are set, replaced or  *)
(* cleared, and it is encoded.                                             *)
(***************************************************************************)
\* header bytes on the wire: the two bytes of an unsigned barcode, the twelve
\* of a signed one (tests/idb.test.ts), and twelve with algorithm byte 0
WireIDBHeaderShort == <<106, 188>>

WireIDBHeaderLong == <<106, 188, 1, 5, 4, 3, 2, 1, 0, 155, 93, 136>>

WireIDBHeaders ==
    {WireIDBHeaderShort, WireIDBHeaderLong, [WireIDBHeaderLong EXCEPT ![3] = 0]}

\* a message of 128 encoded bytes
LongMessage == <<4, 126>> \o [i \in 1..126 |-> 187]

\* TLVs on the wire: message groups (one of 128 bytes), a signer certificate,
\* a signature and a TLV of no known tag
WireIDBTLVs ==
    {<<97, 4, 4, 2, 176, 177>>,
     <<97, 129, 128>> \o LongMessage,
     <<126, 2, 7, 8>>,
     <<127, 4, 1, 2, 3, 4>>,
     <<5, 1, 0>>}

\* the lists of at most n wire TLVs
RECURSIVE WireIDBTLVLists(_)
WireIDBTLVLists(n) ==
    IF n = 0 THEN {<<>>}
    ELSE WireIDBTLVLists(n - 1)
         \cup {t \o l : t \in WireIDBTLVs, l \in WireIDBTLVLists(n - 1)}

\* payloads on the wire, the full one (group, certificate, signature) included
WirePayloads ==
    {h \o l : h \in WireIDBHeaders,
              l \in WireIDBTLVLists(MaxTLVs)
                    \cup {<<97, 4, 4, 2, 176, 177, 126, 2, 7, 8, 127, 4, 1, 2, 3, 4>>}}

\* "RDB1", "NDB1" and an identifier that is neither
BarcodeIdentifiers == {<<82, 68, 66, 49>>, <<78, 68, 66, 49>>, <<88, 68, 66, 49>>}

\* the flag characters A to E
BarcodeFlags == 65..69

\* the text of payload bytes under a flag character, deflated if the flag says so
BarcodeBody(flag, bytes) ==
    base32nopad_encode(IF (((flag - 65) % 4) \div 2) = 1 THEN deflate(bytes) ELSE bytes)

\* barcode texts: every identifier, flag and payload; a text without a flag;
\* a text that is not base-32; a text whose flag says deflated when it is not
BarcodeTexts ==
    {id \o <<flag>> \o BarcodeBody(flag, bytes) :
        id \in BarcodeIdentifiers, flag \in BarcodeFlags, bytes \in WirePayloads}
    \cup {<<82, 68, 66, 49>>,
          <<82, 68, 66, 49, 65, 49, 49>>,
          <<82, 68, 66, 49, 67>> \o base32nopad_encode(WireIDBHeaderShort \o <<97, 0>>)}

\* headers a caller constructs: without and with signature fields, with a
\* country that has no C40 encoding, with algorithm 0
IDBHeaders ==
    {IDBHeader(<<85, 84, 79>>, Null, Null, Null),
     IDBHeader(<<68, 60, 60>>, Some(1), Some(<<5, 4, 3, 2, 1>>),
               Some(<<50, 48, 50, 52, 45, 49, 48, 45, 49, 56>>)),
     IDBHeader(<<85, 84, 79>>, Some(0), Some(<<5, 4, 3, 2, 1>>),
               Some(<<50, 48, 50, 52, 45, 49, 48, 45, 49, 56>>)),
     IDBHeader(<<85, 126, 79>>, Null, Null, Null)}

\* message lists a caller constructs
IDBMessageLists ==
    {<<>>,
     <<DerTLV(4, <<176, 177>>)>>,
     <<DerTLV(1, <<65>>), DerTLV(4, [i \in 1..126 |-> 187])>>}

\* signer certificates: none, or bytes
SignerCertificates == {Null, Some(<<7, 8>>), Some(<<9>>)}

\* signatures: none, or r and s
IDBSignatures == {Null, Signature(<<1, 2>>, <<3, 4>>), Signature(<<5>>, <<6>>)}

InitIDB ==
    /\ op = "init"
    /\ input = Null
    /\ output = Null
    /\ seal = NoSeal
    /\ barcode = NoBarcode
    /\ vdsDocumentStorage = NewMap
    /\ vdsSchemaStorage = NewMap
    /\ position = 0
    /\ derTlvList = <<>>

\* ICAOBarcode.decode(data)
BarcodeDecode ==
    /\ op = "init"
    /\ \E data \in BarcodeTexts : \E decoded \in {ICAOBarcode_decode(data)} :
          /\ input' = [kind |-> "text", val |-> data]
          /\ output' = decoded
          /\ barcode' = IF decoded.ok THEN decoded.val ELSE NoBarcode
    /\ op' = "ICAOBarcode.decode"
    /\ UNCHANGED seal
    /\ UNCHANGED <<vdsDocumentStorage, vdsSchemaStorage, position, derTlvList>>

\* new ICAOBarcode(isSigned, isZipped, new IDBPayload(...))
BarcodeNew ==
    /\ op = "init"
    /\ \E isSigned \in BOOLEAN, isZipped \in BOOLEAN, header \in IDBHeaders,
          messageList \in IDBMessageLists, signerCertificate \in SignerCertificates,
          signature \in IDBSignatures :
          /\ barcode' = ICAOBarcode(isSigned, isZipped,
                                    IDBPayload(header, messageList, signerCertificate,
                                               signature))
          /\ input' = [kind |-> "barcode", val |-> barcode']
          /\ output' = Null
    /\ op' = "new ICAOBarcode"
    /\ UNCHANGED seal
    /\ UNCHANGED <<vdsDocumentStorage, vdsSchemaStorage, position, derTlvList>>

\* barcode.encoded
BarcodeEncoded ==
    /\ op \in {"ICAOBarcode.decode", "new ICAOBarcode", "set signerCertificate",
               "set payload.signature"}
    /\ barcode # NoBarcode
    /\ output' = ICAOBarcode_encoded(barcode)
    /\ op' = "ICAOBarcode.encoded"
    /\ UNCHANGED <<input, seal, barcode>>
    /\ UNCHANGED <<vdsDocumentStorage, vdsSchemaStorage, position, derTlvList>>

\* barcode.payload.signerCertificate = signerCertificate
SetSignerCertificate ==
    /\ op # "init"
    /\ barcode # NoBarcode
    /\ \E signerCertificate \in SignerCertificates :
          barcode' = [barcode EXCEPT !.payload.signerCertificate = signerCertificate]
    /\ op' = "set signerCertificate"
    /\ output' = Null
    /\ UNCHANGED <<input, seal>>
    /\ UNCHANGED <<vdsDocumentStorage, vdsSchemaStorage, position, derTlvList>>

\* barcode.payload.signature = signature
SetPayloadSignature ==
    /\ op # "init"
    /\ barcode # NoBarcode
    /\ \E signature \in IDBSignatures :
          barcode' = [barcode EXCEPT !.payload.signature = signature]
    /\ op' = "set payload.signature"
    /\ output' = Null
    /\ UNCHANGED <<input, seal>>
    /\ UNCHANGED <<vdsDocumentStorage, vdsSchemaStorage, position, derTlvList>>

NextIDB ==
    \/ BarcodeDecode
    \/ BarcodeNew
    \/ BarcodeEncoded
    \/ SetSignerCertificate
    \/ SetPayloadSignature

SpecIDB == InitIDB /\ [][NextIDB]_vars

(***************************************************************************)
(* Specification SpecSchema: a seal is mapped by a schema                  *)
(* (mapSealToFeatures), decoded into an instance of a class (decodeSeal),  *)
(* and the instance is encoded again (encodeSeal).                         *)
(***************************************************************************)
\* the features of a schema with one feature of every coding
AllCodings ==
    <<Feature(1, "mrz", MRZ, TRUE),
      Feature(2, "number", C40_STRING, FALSE),
      Feature(3, "entries", INT, FALSE),
      Feature(4, "duration", BINARY, FALSE),
      Feature(5, "issued", DATE, FALSE),
      Feature(6, "birth", MASKED_DATE, FALSE),
      Feature(7, "name", UTF8_STRING, FALSE)>>

\* the features of a schema with a required integer and an optional string
TwoFeatures ==
    <<Feature(3, "entries", INT, TRUE), Feature(7, "name", UTF8_STRING, FALSE)>>

\* schemas of documentRef 0xfb06 in version 4 and 3, and one of another document
Schemas ==
    {SealSchema(64262, 4, AllCodings), SealSchema(64262, 4, TwoFeatures),
     SealSchema(64262, 3, AllCodings), SealSchema(63752, 4, AllCodings)}

\* the classes of these schemas, a class without @VDSDocument and one
\* without @VDSProp
Constructors ==
    {Constructor("Document", [documentRef |-> schema.documentRef, version |-> schema.version],
                 [features |-> schema.features]) : schema \in Schemas}
    \cup {Constructor("NoDocument", Null, [features |-> AllCodings]),
          Constructor("NoSchema", [documentRef |-> 64262, version |-> 4], Null)}

\* 7 December 2025 as DateEncoder.encode writes it, and month 13 of 2025
DateBytes == DateEncoder_encode(newDate(2025, 11, 7)).val

DateBytesMonth13 == numberToBytesBE(13012025, 3).val

\* "19xx-xx-01" as encodeMaskedDate writes it, and 1987-04-01 with the same mask
MaskedDateBytes == DateEncoder_encodeMaskedDate(<<49, 57, 120, 120, 45, 120, 120, 45, 48, 49>>).val

MaskedDateBytesDigits == <<MaskedDateBytes[1]>> \o numberToBytesBE(4011987, 3).val

\* messages of every coding, in the form the encoders write and in other
\* forms, and a message of a tag that no schema declares
SchemaMessages ==
    {DerTLV(1, C40Encoder_encode(<<65, 60, 90>>).val),
     DerTLV(2, C40Encoder_encode(<<65, 90, 48, 57>>).val),
     DerTLV(2, C40Encoder_encode(<<65, 90, 48>>).val \o <<7>>),
     DerTLV(3, <<1, 44>>),
     DerTLV(3, <<0, 12>>),
     DerTLV(4, <<160, 0, 0>>),
     DerTLV(5, DateBytes),
     DerTLV(5, DateBytesMonth13),
     DerTLV(5, <<1, 2>>),
     DerTLV(6, MaskedDateBytes),
     DerTLV(6, MaskedDateBytesDigits),
     DerTLV(7, <<65, 195, 169>>),
     DerTLV(7, <<255>>),
     DerTLV(7, <<239, 187, 191, 65>>),
     DerTLV(9, <<1>>)}

\* the lists of at most n messages
RECURSIVE SchemaMessageLists(_)
SchemaMessageLists(n) ==
    IF n = 0 THEN {<<>>}
    ELSE SchemaMessageLists(n - 1)
         \cup {<<m>> \o l : m \in SchemaMessages, l \in SchemaMessageLists(n - 1)}

\* one message of every coding, not in the order of the schema
EveryCoding ==
    <<DerTLV(7, <<65, 195, 169>>),
      DerTLV(3, <<1, 44>>),
      DerTLV(1, C40Encoder_encode(<<65, 60, 90>>).val),
      DerTLV(6, MaskedDateBytes),
      DerTLV(2, C40Encoder_encode(<<65, 90, 48, 57>>).val),
      DerTLV(5, DateBytes),
      DerTLV(4, <<160, 0, 0>>)>>

\* the header of a seal of documentRef 0xfb06
SchemaHeader(rawVersion) ==
    VDSHeader(<<85, 84, 79>>, <<85, 84, 84, 83>>, <<53, 66>>, SealIssuingDate,
              SealIssuingDate, 251, 6, rawVersion).val

\* decoded seals: version 4 with every list, version 3 with one
SchemaSeals ==
    {Seal(SchemaHeader(3), messageList, Null) :
        messageList \in SchemaMessageLists(MaxTLVs) \cup {EveryCoding}}
    \cup {Seal(SchemaHeader(2), EveryCoding, Null)}

InitSchema ==
    /\ op = "init"
    /\ input = Null
    /\ output = Null
    /\ seal = NoSeal
    /\ barcode = NoBarcode
    /\ vdsDocumentStorage = NewMap
    /\ vdsSchemaStorage = NewMap
    /\ position = 0
    /\ derTlvList = <<>>

\* a decoded seal
SchemaSeal ==
    /\ op = "init"
    /\ seal' \in SchemaSeals
    /\ op' = "seal"
    /\ UNCHANGED <<input, output, barcode>>
    /\ UNCHANGED <<vdsDocumentStorage, vdsSchemaStorage, position, derTlvList>>

\* mapSealToFeatures(seal, schema)
MapSealToFeatures ==
    /\ op = "seal"
    /\ \E schema \in Schemas :
          /\ input' = [kind |-> "schema", schema |-> schema]
          /\ output' = mapSealToFeatures(seal, schema)
    /\ op' = "mapSealToFeatures"
    /\ UNCHANGED <<seal, barcode>>
    /\ UNCHANGED <<vdsDocumentStorage, vdsSchemaStorage, position, derTlvList>>

\* instance = decodeSeal(seal, ctor)
DecodeSeal ==
    /\ op = "seal"
    /\ \E ctor \in Constructors :
          /\ input' = [kind |-> "ctor", ctor |-> ctor]
          /\ output' = decodeSeal(seal, ctor)
    /\ op' = "decodeSeal"
    /\ UNCHANGED <<seal, barcode>>
    /\ UNCHANGED <<vdsDocumentStorage, vdsSchemaStorage, position, derTlvList>>

\* encodeSeal(instance) of the instance that decodeSeal returned
EncodeSeal ==
    /\ op = "decodeSeal"
    /\ output.ok
    /\ output' = encodeSeal(output.val, input.ctor)
    /\ op' = "encodeSeal"
    /\ UNCHANGED <<input, seal, barcode>>
    /\ UNCHANGED <<vdsDocumentStorage, vdsSchemaStorage, position, derTlvList>>

\* values of the properties "entries" and "name" that a caller supplies
EntriesValues == {JsBigInt(0), JsBigInt(1), JsBigInt(300), JsBigInt(0 - 1)}

NameValues == {JsString(<<>>), JsString(<<65>>), JsString(<<65, 233>>)}

\* objects with none, one or both of these properties
FeatureObjects ==
    {{}}
    \cup {{[name |-> "entries", value |-> e]} : e \in EntriesValues}
    \cup {{[name |-> "name", value |-> n]} : n \in NameValues}
    \cup {{[name |-> "entries", value |-> e], [name |-> "name", value |-> n]} :
             e \in EntriesValues, n \in NameValues}

\* the features of a schema with an optional integer and a required string
TwoFeaturesOptional ==
    <<Feature(3, "entries", INT, FALSE), Feature(7, "name", UTF8_STRING, TRUE)>>

\* the schemas that declare these two properties
ObjectSchemas ==
    {SealSchema(64262, 4, TwoFeatures), SealSchema(64262, 4, TwoFeaturesOptional)}

\* mapFeaturesToSeal(mappedFeatures, schema)
MapFeaturesToSeal ==
    /\ op = "init"
    /\ \E mappedFeatures \in FeatureObjects, schema \in ObjectSchemas :
          /\ input' = [kind |-> "features", object |-> mappedFeatures, schema |-> schema]
          /\ output' = mapFeaturesToSeal(mappedFeatures, schema)
    /\ op' = "mapFeaturesToSeal"
    /\ UNCHANGED <<seal, barcode>>
    /\ UNCHANGED <<vdsDocumentStorage, vdsSchemaStorage, position, derTlvList>>

\* encodeSeal(instance) of an instance that the caller filled in
EncodeInstance ==
    /\ op = "init"
    /\ \E instance \in FeatureObjects, schema \in ObjectSchemas :
          /\ input' = [kind |-> "features", object |-> instance, schema |-> schema]
          /\ output' = encodeSeal_schema(instance, Ok(schema))
    /\ op' = "encodeSeal(instance)"
    /\ UNCHANGED <<seal, barcode>>
    /\ UNCHANGED <<vdsDocumentStorage, vdsSchemaStorage, position, derTlvList>>

NextSchema ==
    \/ SchemaSeal
    \/ MapSealToFeatures
    \/ DecodeSeal
    \/ EncodeSeal
    \/ MapFeaturesToSeal
    \/ EncodeInstance

SpecSchema == InitSchema /\ [][NextSchema]_vars

(***************************************************************************)
(* Specification SpecDigest: the data that signSeal signs and verifySeal   *)
(* verifies, for keys of every length up to MaxKeyLen bytes.               *)
(***************************************************************************)
\* the messages that are signed
SignedData == {<<1, 2, 3>>, <<>>}

\* private keys of 0..MaxKeyLen bytes
DigestPrivateKeys == {[id |-> 1, length |-> n] : n \in 0..MaxKeyLen}

\* public keys of 0..2*MaxKeyLen+1 bytes
DigestPublicKeys == {[id |-> 1, length |-> n] : n \in 0..((2 * MaxKeyLen) + 1)}

InitDigest ==
    /\ op = "init"
    /\ input = Null
    /\ output = Null
    /\ seal = NoSeal
    /\ barcode = NoBarcode
    /\ vdsDocumentStorage = NewMap
    /\ vdsSchemaStorage = NewMap
    /\ position = 0
    /\ derTlvList = <<>>

\* signSeal up to the call of curve.sign: dataToSign, or the Error thrown
SignSealData ==
    /\ op = "init"
    /\ \E privateKey \in DigestPrivateKeys, data \in SignedData, prehash \in BOOLEAN :
          /\ input' = [kind |-> "signSeal", key |-> privateKey, data |-> data,
                       prehash |-> prehash]
          /\ output' = dataToSignOrVerify(Ok(data), Signer_fieldSize(privateKey), prehash)
    /\ op' = "signSeal"
    /\ UNCHANGED <<seal, barcode>>
    /\ UNCHANGED <<vdsDocumentStorage, vdsSchemaStorage, position, derTlvList>>

\* verifySeal up to the call of curve.verify: dataToVerify, or the Error thrown
VerifySealData ==
    /\ op = "init"
    /\ \E publicKey \in DigestPublicKeys, data \in SignedData, prehash \in BOOLEAN :
          /\ input' = [kind |-> "verifySeal", key |-> publicKey, data |-> data,
                       prehash |-> prehash]
          /\ output' = dataToSignOrVerify(Ok(data), Verifier_fieldSize(publicKey), prehash)
    /\ op' = "verifySeal"
    /\ UNCHANGED <<seal, barcode>>
    /\ UNCHANGED <<vdsDocumentStorage, vdsSchemaStorage, position, derTlvList>>

NextDigest ==
    \/ SignSealData
    \/ VerifySealData

SpecDigest == InitDigest /\ [][NextDigest]_vars


(***************************************************************************)
(* DER TLVs and raw signatures: the readers parseTLVs, DerTLV.decode and   *)
(* AbstractECDSARawSignature.decode on short buffers, the writers          *)
(* getDerLength and getDerInteger on lengths and byte strings.             *)
(***************************************************************************)
\* bytes of tags, short lengths, and first length bytes with the high bit set
DerBytes == {0, 1, 2, 128, 129, 130, 131, 132}

DerBuffers == StringsUpTo(DerBytes, MaxBufLen)

\* bytes at the ends of the two halves of the byte range
IntegerBytes == {0, 1, 127, 128, 255}

IntegerValues == StringsUpTo(IntegerBytes, MaxBufLen)

\* value lengths on both sides of 127, 255, 65535 and the largest of 24 bits
DerLengths == (0..MaxDerLength) \cup {65535, 65536, 65537, 16777215}

\* VDSSignature.TAG, IDBSignature.TAG
SignatureTags == {255, 127}

\* raw signature TLVs with values of every length up to MaxBufLen, under
\* either signature tag and under the tag of a SEQUENCE, and no bytes at all
SignatureBuffers ==
    {<<>>} \cup {<<tag, Len(value)>> \o value :
                    tag \in SignatureTags \cup {48}, value \in StringsUpTo({1, 2}, MaxBufLen)}

InitDer ==
    /\ op = "init"
    /\ input = Null
    /\ output = Null
    /\ seal = NoSeal
    /\ barcode = NoBarcode
    /\ vdsDocumentStorage = NewMap
    /\ vdsSchemaStorage = NewMap
    /\ position = 0
    /\ derTlvList = <<>>

\* parseTLVs(rawBytes)
ParseTLVs ==
    /\ op = "init"
    /\ \E rawBytes \in DerBuffers :
          /\ input' = [kind |-> "bytes", val |-> rawBytes]
          /\ output' = parseTLVs(rawBytes)
    /\ op' = "parseTLVs"
    /\ UNCHANGED <<seal, barcode>>
    /\ UNCHANGED <<vdsDocumentStorage, vdsSchemaStorage, position, derTlvList>>

\* DerTLV.decode(derBytes)
DerDecode ==
    /\ op = "init"
    /\ \E derBytes \in DerBuffers :
          /\ input' = [kind |-> "bytes", val |-> derBytes]
          /\ output' = DerTLV_decode(derBytes)
    /\ op' = "DerTLV.decode"
    /\ UNCHANGED <<seal, barcode>>
    /\ UNCHANGED <<vdsDocumentStorage, vdsSchemaStorage, position, derTlvList>>

\* DerTLV.getDerLength(length)
GetDerLength ==
    /\ op = "init"
    /\ \E length \in DerLengths :
          /\ input' = [kind |-> "length", val |-> length]
          /\ output' = Ok(DerTLV_getDerLength(length))
    /\ op' = "getDerLength"
    /\ UNCHANGED <<seal, barcode>>
    /\ UNCHANGED <<vdsDocumentStorage, vdsSchemaStorage, position, derTlvList>>

\* DerTLV.getDerInteger(value)
GetDerInteger ==
    /\ op = "init"
    /\ \E value \in IntegerValues :
          /\ input' = [kind |-> "bytes", val |-> value]
          /\ output' = Ok(DerTLV_getDerInteger(value))
    /\ op' = "getDerInteger"
    /\ UNCHANGED <<seal, barcode>>
    /\ UNCHANGED <<vdsDocumentStorage, vdsSchemaStorage, position, derTlvList>>

\* VDSSignature.decode(data), IDBSignature.decode(data)
SignatureDecode ==
    /\ op = "init"
    /\ \E TAG \in SignatureTags, data \in SignatureBuffers :
          /\ input' = [kind |-> "signature", TAG |-> TAG, val |-> data]
          /\ output' = Signature_decode(TAG, data)
    /\ op' = "Signature.decode"
    /\ UNCHANGED <<seal, barcode>>
    /\ UNCHANGED <<vdsDocumentStorage, vdsSchemaStorage, position, derTlvList>>

NextDer ==
    \/ ParseTLVs
    \/ DerDecode
    \/ GetDerLength
    \/ GetDerInteger
    \/ SignatureDecode

SpecDer == InitDer /\ [][NextDer]_vars


(***************************************************************************)
(* Inputs outside the formats: C40Encoder.encode on strings with           *)
(* characters that have no C40 value, DateEncoder.encodeMaskedDate on      *)
(* strings around yyyy-MM-dd, IDBHeader.decode on buffers of every length. *)
(***************************************************************************)
\* 'A', 'a', '0', '<', LF, and three characters without a C40 value: '-',
\* '[' and U+0141, whose low byte is that of 'A'
TextUnits == {65, 97, 48, 60, 10, 45, 91, 321}

Texts == StringsUpTo(TextUnits, MaxStrLen)

\* yyyy-MM-dd with a digit, an 'x', a letter or a '-' in four of the slots,
\* and with a '-' or a '/' as the second separator
DateCores ==
    {<<50, 48, y3, y4, 45, 48, m2, sep, d1, 53>> :
        y3 \in {50, 120}, y4 \in {52, 65}, m2 \in {49, 45}, sep \in {45, 47},
        d1 \in {49, 88}}

\* the strings around a date: nothing, a digit, a letter
DateAffixes == {<<>>, <<49>>, <<90>>}

\* the dates with something before and after, and shorter strings
DateTexts ==
    {prefix \o core \o suffix :
        prefix \in DateAffixes, core \in DateCores, suffix \in DateAffixes}
    \cup {<<>>, <<50, 48, 50, 52, 45, 49, 45, 49, 53>>, <<50, 48, 50, 52, 48, 49, 49, 53>>}

\* the first n bytes of a signed header followed by two more bytes, for every
\* n from none to all, under two algorithm bytes
HeaderBuffers ==
    {Slice(<<106, 188, alg>> \o Slice(WireIDBHeaderLong, 3, 12) \o <<0, 1>>, 0, n) :
        alg \in {1, 0}, n \in 0..14}
    \cup {<<235, 17>>, <<0, 0>>}

InitMalformed ==
    /\ op = "init"
    /\ input = Null
    /\ output = Null
    /\ seal = NoSeal
    /\ barcode = NoBarcode
    /\ vdsDocumentStorage = NewMap
    /\ vdsSchemaStorage = NewMap
    /\ position = 0
    /\ derTlvList = <<>>

\* C40Encoder.encode(string)
C40EncodeText ==
    /\ op = "init"
    /\ \E string \in Texts :
          /\ input' = [kind |-> "text", val |-> string]
          /\ output' = C40Encoder_encode(string)
    /\ op' = "C40Encoder.encode"
    /\ UNCHANGED <<seal, barcode>>
    /\ UNCHANGED <<vdsDocumentStorage, vdsSchemaStorage, position, derTlvList>>

\* DateEncoder.encodeMaskedDate(date)
EncodeMaskedDateText ==
    /\ op = "init"
    /\ \E date \in DateTexts :
          /\ input' = [kind |-> "text", val |-> date]
          /\ output' = DateEncoder_encodeMaskedDate(date)
    /\ op' = "DateEncoder.encodeMaskedDate"
    /\ UNCHANGED <<seal, barcode>>
    /\ UNCHANGED <<vdsDocumentStorage, vdsSchemaStorage, position, derTlvList>>

\* IDBHeader.decode(data)
HeaderDecode ==
    /\ op = "init"
    /\ \E data \in HeaderBuffers :
          /\ input' = [kind |-> "bytes", val |-> data]
          /\ output' = IDBHeader_decode(data)
    /\ op' = "IDBHeader.decode"
    /\ UNCHANGED <<seal, barcode>>
    /\ UNCHANGED <<vdsDocumentStorage, vdsSchemaStorage, position, derTlvList>>

\* IDBHeader.decode(data).encoded
HeaderEncoded ==
    /\ op = "IDBHeader.decode"
    /\ output.ok
    /\ op' = "IDBHeader.encoded"
    /\ output' = IDBHeader_encoded(output.val)
    /\ UNCHANGED <<input, seal, barcode>>
    /\ UNCHANGED <<vdsDocumentStorage, vdsSchemaStorage, position, derTlvList>>

NextMalformed ==
    \/ C40EncodeText
    \/ EncodeMaskedDateText
    \/ HeaderDecode
    \/ HeaderEncoded

SpecMalformed == InitMalformed /\ [][NextMalformed]_vars


(***************************************************************************)
(* VDSHeader: the constructor, VDSHeader.decode on version-4 headers of    *)
(* every declared certificate-reference length, the documentRef setter,    *)
(* get encoded, and VDSHeader.decode on the bytes get encoded returned.    *)
(***************************************************************************)
\* the largest length that the two hexadecimal digits of a version-4 header declare
MaxCertRefLength == 255

\* the C40 bytes of "AAA"
WireTriple == <<89, 191>>

\* the bytes of a certificate reference of len characters on the wire
RECURSIVE WireCertRef(_)
WireCertRef(len) == IF len <= 0 THEN <<>> ELSE WireTriple \o WireCertRef(len - 3)

\* dc 03 "UTO" "UTTS" and the declared length, a certificate reference of
\* that length, the dates and document bytes of WireHeaderV4
WireHeaderOfLength(len) ==
    <<220, 3, 217, 197>>
    \o C40Encoder_encode(<<85, 84, 84, 83>> \o padStart(toHexString(len), 2, 48)).val
    \o WireCertRef(len)
    \o <<15, 113, 52, 184, 52, 89, 251, 6>>

\* "A1B2C3D4" cut to every length, two references of lower-case letters and
\* '<', one that ends in a line feed, and one of 60 characters
HeaderCertRefs ==
    {Slice(<<65, 49, 66, 50, 67, 51, 68, 52>>, 0, n) : n \in 0..8}
    \cup {<<97, 60, 98>>, <<53, 98>>, <<65, 66, 67, 10>>,
          [i \in 1..60 |-> 65 + (i % 26)]}

\* values on both sides of the ranges 1..254 and 1..253
DocFeatureRefs == {0, 1, 254, 255}
DocTypeCats == {0, 1, 253, 254}

\* 16-bit values whose bytes are inside and outside the ranges
DocumentRefs == {64262, 257, 6, 65286, 1535, 65278}

InitHeader ==
    /\ op = "init"
    /\ input = Null
    /\ output = Null
    /\ seal = NoSeal
    /\ barcode = NoBarcode
    /\ vdsDocumentStorage = NewMap
    /\ vdsSchemaStorage = NewMap
    /\ position = 0
    /\ derTlvList = <<>>

\* new VDSHeader(...)
VDSHeaderNew ==
    /\ op = "init"
    /\ \E certificateReference \in HeaderCertRefs, docFeatureRef \in DocFeatureRefs,
          docTypeCat \in DocTypeCats, rawVersion \in {2, 3} :
          /\ input' = [kind |-> "new", certificateReference |-> certificateReference,
                       docFeatureRef |-> docFeatureRef, docTypeCat |-> docTypeCat,
                       rawVersion |-> rawVersion]
          /\ output' = VDSHeader(<<85, 84, 79>>, <<85, 84, 84, 83>>, certificateReference,
                                 SealIssuingDate, newDate(2025, 11, 7),
                                 docFeatureRef, docTypeCat, rawVersion)
    /\ op' = "new VDSHeader"
    /\ UNCHANGED <<seal, barcode>>
    /\ UNCHANGED <<vdsDocumentStorage, vdsSchemaStorage, position, derTlvList>>

\* VDSHeader.decode(data)
VDSHeaderDecode ==
    /\ op = "init"
    /\ \E len \in 0..MaxCertRefLength, docFeatureRef \in DocFeatureRefs :
       \E data \in {[WireHeaderOfLength(len) EXCEPT
                        ![Len(WireHeaderOfLength(len)) - 1] = docFeatureRef]} :
          /\ input' = [kind |-> "bytes", val |-> data, len |-> len,
                       docFeatureRef |-> docFeatureRef]
          /\ output' = VDSHeader_decode(data)
    /\ op' = "VDSHeader.decode"
    /\ UNCHANGED <<seal, barcode>>
    /\ UNCHANGED <<vdsDocumentStorage, vdsSchemaStorage, position, derTlvList>>

\* header.documentRef = documentRef
VDSHeaderSetDocumentRef ==
    /\ op \in {"new VDSHeader", "VDSHeader.decode", "set documentRef"}
    /\ output.ok
    /\ \E documentRef \in DocumentRefs :
          /\ input' = [kind |-> "documentRef", val |-> documentRef]
          /\ output' = Ok(VDSHeader_setDocumentRef(output.val, documentRef))
    /\ op' = "set documentRef"
    /\ UNCHANGED <<seal, barcode>>
    /\ UNCHANGED <<vdsDocumentStorage, vdsSchemaStorage, position, derTlvList>>

\* header.encoded
VDSHeaderEncoded ==
    /\ op = "new VDSHeader"
    /\ output.ok
    /\ input' = [kind |-> "header", val |-> output.val]
    /\ output' = VDSHeader_encoded(output.val)
    /\ op' = "VDSHeader.encoded"
    /\ UNCHANGED <<seal, barcode>>
    /\ UNCHANGED <<vdsDocumentStorage, vdsSchemaStorage, position, derTlvList>>

\* VDSHeader.decode(header.encoded)
VDSHeaderDecodeEncoded ==
    /\ op = "VDSHeader.encoded"
    /\ output.ok
    /\ input' = [kind |-> "header", val |-> input.val, encoded |-> output.val]
    /\ output' = VDSHeader_decode(output.val)
    /\ op' = "VDSHeader.decode(encoded)"
    /\ UNCHANGED <<seal, barcode>>
    /\ UNCHANGED <<vdsDocumentStorage, vdsSchemaStorage, position, derTlvList>>

NextHeader ==
    \/ VDSHeaderNew
    \/ VDSHeaderDecode
    \/ VDSHeaderSetDocumentRef
    \/ VDSHeaderEncoded
    \/ VDSHeaderDecodeEncoded

SpecHeader == InitHeader /\ [][NextHeader]_vars

\* tag, shortest DER length, value of every TLV of list
RECURSIVE encodeAllMinimal(_)
encodeAllMinimal(list) ==
    IF list = <<>> THEN <<>>
    ELSE <<Head(list).tag>> \o getDerLengthMinimal(Len(Head(list).value))
         \o Head(list).value \o encodeAllMinimal(Tail(list))

\* the bytes of a well-formed encoded seal that carries the header bytes, the
\* messages and the signature of decoded
WellFormedEncoding(b, decoded) ==
    Slice(b, 0, decoded.header._offset)
    \o encodeAllMinimal(decoded.messageList)
    \o (IF decoded.signature = Null THEN <<>>
        ELSE encodeAllMinimal(<<DerTLV(255, decoded.signature.r \o decoded.signature.s)>>))

\* b is a header, then messages, then at most one signature, every TLV whole
\* and with its length in the shortest form
WellFormedSeal(b, decoded) == decoded.ok /\ b = WellFormedEncoding(b, decoded.val)

\* C1: for every well-formed encoded seal b, the seal that Seal.decode(b)
\* returns gives encoded = b, byte for byte.
C1_SealDecodeEncode ==
    (/\ op = "Seal.encoded"
     /\ input.kind = "bytes"
     /\ WellFormedSeal(input.val, Seal_decode(input.val))
     /\ seal = Seal_decode(input.val).val)
        => output = Ok(input.val)

\* the header the statement calls valid, and no message with the signature's tag
ValidSeal(x) ==
    /\ x.header.rawVersion \in {2, 3}
    /\ x.header.docFeatureRef \in 1..254
    /\ x.header.docTypeCat \in 1..253
    /\ (x.header.rawVersion = 2 => Len(x.header.certificateReference) <= 5)
    /\ \A i \in 1..Len(x.messageList) : x.messageList[i].tag # 255

SameCalendarDate(a, b) == a.year = b.year /\ a.month = b.month /\ a.date = b.date

\* the same header fields, the same (tag, value) messages in order, the same signature
SameSeal(a, b) ==
    /\ a.header.issuingCountry = b.header.issuingCountry
    /\ a.header.signerIdentifier = b.header.signerIdentifier
    /\ a.header.certificateReference = b.header.certificateReference
    /\ SameCalendarDate(a.header.issuingDate, b.header.issuingDate)
    /\ SameCalendarDate(a.header.sigDate, b.header.sigDate)
    /\ a.header.docFeatureRef = b.header.docFeatureRef
    /\ a.header.docTypeCat = b.header.docTypeCat
    /\ a.header.rawVersion = b.header.rawVersion
    /\ a.messageList = b.messageList
    /\ a.signature = b.signature

\* C3: for a seal x with a valid header and no message of tag 0xFF,
\* Seal.decode(x.encoded) has the same header fields, the same messages in
\* the same order and r and s equal to x's (or no signature if x has none).
C3_SealEncodeDecode ==
    (op = "Seal.decode(encoded)" /\ ValidSeal(input.val))
        => (output.ok /\ SameSeal(seal, input.val))

\* C4: after seal.signature = signer.signSeal(seal), verifySeal(seal) with the
\* matching public key returns true, and with another key does not return true.
C4_SignThenVerify ==
    op = "verifySeal" =>
        \A privateKey \in PrivateKeys :
            seal.signature \in Signer_signSeal(privateKey, seal, input.prehash) =>
                IF input.publicKey = PublicKeyOf(privateKey)
                THEN output = Ok(TRUE)
                ELSE output # Ok(TRUE)

\* the TLV of the signature that encoded appends
SignatureTLV(signature) ==
    IF signature = Null THEN <<>>
    ELSE <<255>> \o DerTLV_getDerLength(Len(signature.r) + Len(signature.s))
         \o signature.r \o signature.s

\* signedBytes is the header's bytes and each message's bytes in list order;
\* encoded is signedBytes, then the signature's TLV if there is a signature
SealLayout(s) ==
    /\ Seal_signedBytes(s) = concatToHeader(VDSHeader_encoded(s.header),
                                            Flatten([i \in 1..Len(s.messageList) |->
                                                        DerTLV_encoded(s.messageList[i])]))
    /\ Seal_signedBytes(s).ok =>
           Seal_encoded(s) = Ok(Seal_signedBytes(s).val \o SignatureTLV(s.signature))

\* C5: signedBytes is header.encoded followed by every message's encoded in
\* list order and never holds the signature; encoded is signedBytes followed
\* by the 0xFF signature TLV exactly when a signature is present; assigning
\* or replacing seal.signature never changes signedBytes.
C5_SignedBytesInvariant ==
    /\ [](seal # NoSeal => SealLayout(seal))
    /\ [][op' \in {"set signature", "signSeal"} =>
             Seal_signedBytes(seal') = Seal_signedBytes(seal)]_vars

\* a signature is assigned to a seal of two messages that had none
C5_Witness ==
    /\ op = "set signature"
    /\ seal.signature # Null
    /\ Len(seal.messageList) = 2
    /\ Seal_encoded(seal).ok
    /\ Seal_encoded(seal) # Seal_signedBytes(seal)

\* the payload bytes a barcode text carries, inflated if its flag says so
PayloadBytesOf(data) ==
    inflateIf((((data[5] - 65) % 4) \div 2) = 1, base32nopad_decode(Slice(data, 5, Len(data))))

\* the bytes of a well-formed payload that carries the header bytes, the
\* messages, the signer certificate and the signature of payload: the message
\* group, then the certificate, then the signature, every length in the
\* shortest form
WellFormedPayload(bytes, isSigned, payload) ==
    Slice(bytes, 0, headerSize(isSigned))
    \o encodeAllMinimal(<<DerTLV(97, encodeAllMinimal(payload.messageList))>>)
    \o (IF payload.signerCertificate = Null THEN <<>>
        ELSE encodeAllMinimal(<<DerTLV(126, payload.signerCertificate.val)>>))
    \o (IF payload.signature = Null THEN <<>>
        ELSE encodeAllMinimal(<<DerTLV(127, payload.signature.r \o payload.signature.s)>>))

\* data is "RDB1", a flag character A to D, and the text of a well-formed
\* payload whose header names no algorithm or one of the three defined ones
WellFormedBarcode(data, decoded) ==
    /\ decoded.ok
    /\ Slice(data, 0, 4) = <<82, 68, 66, 49>>
    /\ data[5] \in 65..68
    /\ \/ decoded.val.payload.header.signatureAlgorithm = Null
       \/ decoded.val.payload.header.signatureAlgorithm.val \in 1..3
    /\ PayloadBytesOf(data).val
          = WellFormedPayload(PayloadBytesOf(data).val, ICAOBarcode_isSigned(decoded.val),
                              decoded.val.payload)

\* C2: for every barcode text t that ICAOBarcode.decode accepts (here: with
\* the identifier "RDB1", a flag A to D and a well-formed payload),
\* ICAOBarcode.decode(t).encoded equals t.
C2_BarcodeDecodeEncode ==
    (/\ op = "ICAOBarcode.encoded"
     /\ input.kind = "text"
     /\ WellFormedBarcode(input.val, ICAOBarcode_decode(input.val))
     /\ barcode = ICAOBarcode_decode(input.val).val)
        => output = Ok(input.val)

\* header.encoded followed by the message-group TLV: tag 0x61 wrapping the
\* concatenated message encodings
HeaderAndMessageGroup(payload) ==
    concatToHeader(IDBHeader_encoded(payload.header),
                   DerTLV_encoded(DerTLV(97, encodeAll(payload.messageList))))

\* signedBytes begins encoded (both fail when the header cannot be encoded)
IsPrefixOfEncoded(signedBytes, encoded) ==
    IF signedBytes.ok
    THEN encoded.ok /\ Slice(encoded.val, 0, Len(signedBytes.val)) = signedBytes.val
    ELSE ~encoded.ok

\* signedBytes of b is the header and the message group, and a prefix of
\* payload.encoded
BarcodeLayout(b) ==
    /\ ICAOBarcode_signedBytes(b) = HeaderAndMessageGroup(b.payload)
    /\ IsPrefixOfEncoded(ICAOBarcode_signedBytes(b), IDBPayload_encoded(b.payload))

\* C6: for every ICAOBarcode, signedBytes equals header.encoded followed by
\* the message-group TLV and is a prefix of payload.encoded; setting,
\* replacing or clearing payload.signerCertificate or payload.signature
\* leaves signedBytes unchanged.
C6_BarcodeSignedBytes ==
    /\ [](barcode # NoBarcode => BarcodeLayout(barcode))
    /\ [][op' \in {"set signerCertificate", "set payload.signature"}
              => ICAOBarcode_signedBytes(barcode') = ICAOBarcode_signedBytes(barcode)]_vars

\* a decoded barcode with a long message group, a certificate set after its
\* signature was replaced
C6_Witness ==
    /\ op = "set signerCertificate"
    /\ input.kind = "text"
    /\ ICAOBarcode_decode(input.val).val.payload.signature # Null
    /\ barcode.payload.signature # Null
    /\ barcode.payload.signature # ICAOBarcode_decode(input.val).val.payload.signature
    /\ barcode.payload.signerCertificate # Null
    /\ ICAOBarcode_signedBytes(barcode).ok
    /\ Len(ICAOBarcode_signedBytes(barcode).val) > 128

\* the call is mapSealToFeatures or decodeSeal with the schema of the seal's
\* version and documentRef
SchemaOfCall ==
    IF op = "mapSealToFeatures" THEN Ok(input.schema)
    ELSE IF op \in {"decodeSeal", "encodeSeal"} THEN getSealSchema(input.ctor)
    ELSE Err

MatchingSchema(schema) ==
    /\ schema.ok
    /\ VDSHeader_version(seal.header) = schema.val.version
    /\ VDSHeader_documentRef(seal.header) = schema.val.documentRef

\* the schema mapping that the call made, on another message list
MappingOf(messageList) ==
    IF op = "mapSealToFeatures"
    THEN mapSealToFeatures([seal EXCEPT !.messageList = messageList], input.schema)
    ELSE decodeSeal([seal EXCEPT !.messageList = messageList], input.ctor)

\* two outcomes are the same error or the same result
SameOutcome(a, b) == a.ok = b.ok /\ (a.ok => a.val = b.val)

\* the messages of messageList in the order that perm gives
Reordered(messageList, perm) == [i \in 1..Len(messageList) |-> messageList[perm[i]]]

\* the positions of the messages with the tag
PositionsOf(messageList, tag) == {i \in 1..Len(messageList) : messageList[i].tag = tag}

\* no message carries the feature's tag
Missing(messageList, feature) == PositionsOf(messageList, feature.tag) = {}

\* a message of the feature's tag has a value that its coding cannot decode
Undecodable(messageList, feature) ==
    \E i \in PositionsOf(messageList, feature.tag) :
        ~decodeFeature(feature.coding, messageList[i].value).ok

\* what the statement says of the outcome of a schema mapping: the same for
\* every order of the messages; an error when a required feature is missing;
\* a missing optional feature absent from the result, and every error due to
\* a missing required feature or to a value that cannot be decoded
SchemaMappingHolds(features, outcome) ==
    /\ \A perm \in Permutations(1..Len(seal.messageList)) :
          SameOutcome(MappingOf(Reordered(seal.messageList, perm)), outcome)
    /\ \A k \in 1..Len(features) :
          /\ (features[k].required /\ Missing(seal.messageList, features[k])) => ~outcome.ok
          /\ (~features[k].required /\ Missing(seal.messageList, features[k]) /\ outcome.ok)
                => ~hasProperty(outcome.val, features[k].name)
    /\ ~outcome.ok =>
          \E k \in 1..Len(features) :
              \/ features[k].required /\ Missing(seal.messageList, features[k])
              \/ Undecodable(seal.messageList, features[k])

\* every feature's tag is carried by at most one message
UniqueTags(features) ==
    \A k \in 1..Len(features) :
        Cardinality(PositionsOf(seal.messageList, features[k].tag)) <= 1

\* C9 as stated: on a seal whose version and documentRef match the schema,
\* the result of mapSealToFeatures and decodeSeal does not depend on the
\* position of the messages, a missing required feature always raises an error,
\* a missing optional feature is absent and raises nothing.
C9_SchemaMapping ==
    (op \in {"mapSealToFeatures", "decodeSeal"} /\ MatchingSchema(SchemaOfCall))
        => SchemaMappingHolds(SchemaOfCall.val.features, output)

\* C9 amended: the same, for seals in which at most one message carries the
\* tag of each feature (of several messages with one tag the first is taken).
C9_SchemaMappingUniqueTags ==
    (/\ op \in {"mapSealToFeatures", "decodeSeal"}
     /\ MatchingSchema(SchemaOfCall)
     /\ UniqueTags(SchemaOfCall.val.features))
        => SchemaMappingHolds(SchemaOfCall.val.features, output)

\* a seal decoded with its messages not in the order of the schema, an
\* optional feature missing
C9_Witness ==
    /\ op = "decodeSeal"
    /\ MatchingSchema(SchemaOfCall)
    /\ UniqueTags(SchemaOfCall.val.features)
    /\ output.ok
    /\ Len(seal.messageList) = 2
    /\ seal.messageList[1].tag > seal.messageList[2].tag
    /\ seal.messageList[2].tag = 1
    /\ ~hasProperty(output.val, "entries")

\* the C40 encodings of the strings of up to MaxStrLen characters
C40Encodings == {C40Encoder_encode(str).val : str \in StringsUpTo(C40Alphabet, MaxStrLen)}

\* bytes from the 0-based index i on are well-formed UTF-8 (Unicode 3.9, table 3-7)
RECURSIVE WellFormedUTF8(_, _)
WellFormedUTF8(bytes, i) ==
    IF i >= Len(bytes) THEN TRUE
    ELSE IF bytes[i + 1] <= 127 THEN WellFormedUTF8(bytes, i + 1)
    ELSE IF bytes[i + 1] >= 194 /\ bytes[i + 1] <= 223
    THEN continuationAt(bytes, i + 1, 128, 191) /\ WellFormedUTF8(bytes, i + 2)
    ELSE IF bytes[i + 1] >= 224 /\ bytes[i + 1] <= 239
    THEN /\ continuationAt(bytes, i + 1, IF bytes[i + 1] = 224 THEN 160 ELSE 128,
                           IF bytes[i + 1] = 237 THEN 159 ELSE 191)
         /\ continuationAt(bytes, i + 2, 128, 191)
         /\ WellFormedUTF8(bytes, i + 3)
    ELSE IF bytes[i + 1] >= 240 /\ bytes[i + 1] <= 244
    THEN /\ continuationAt(bytes, i + 1, IF bytes[i + 1] = 240 THEN 144 ELSE 128,
                           IF bytes[i + 1] = 244 THEN 143 ELSE 191)
         /\ continuationAt(bytes, i + 2, 128, 191)
         /\ continuationAt(bytes, i + 3, 128, 191)
         /\ WellFormedUTF8(bytes, i + 4)
    ELSE FALSE

\* the i-th digit (1..8) of the number n written as MMDDYYYY
DigitOf(n, i) == (n \div Pow(10, 8 - i)) % 10

\* value is in the form that the encoder of the coding writes: C40 of a string
\* of letters, digits, spaces; an integer without leading zero bytes;
\* MMDDYYYY of a calendar day of a year from 100 on; a masked date with the
\* digit 0 under every bit of the mask; well-formed UTF-8 without a byte order
\* mark at the start
CanonicalValue(coding, value) ==
    IF coding \in {C40_STRING, MRZ} THEN value \in C40Encodings
    ELSE IF coding = INT THEN value # <<>> /\ (Len(value) = 1 \/ value[1] # 0)
    ELSE IF coding = DATE
    THEN /\ Len(value) = 3
         /\ bytesToNumberBE(value) % 10000 >= 100
         /\ bytesToNumberBE(value) \div 1000000 \in 1..12
         /\ (bytesToNumberBE(value) % 1000000) \div 10000
               \in 1..DaysInMonth(bytesToNumberBE(value) % 10000,
                                  (bytesToNumberBE(value) \div 1000000) - 1)
    ELSE IF coding = MASKED_DATE
    THEN /\ Len(value) = 4
         /\ bytesToNumberBE(Tail(value)) < 100000000
         /\ \A i \in 1..8 :
               (value[1] \div Pow(2, 8 - i)) % 2 = 1 => DigitOf(bytesToNumberBE(Tail(value)), i) = 0
    ELSE IF coding = UTF8_STRING
    THEN WellFormedUTF8(value, 0) /\ ~(Len(value) >= 3 /\ SubSeq(value, 1, 3) = <<239, 187, 191>>)
    ELSE TRUE

\* every message tag of the seal is declared in the schema, each tag at most once
DeclaredOnce(features) ==
    /\ \A i \in 1..Len(seal.messageList) :
          \E k \in 1..Len(features) : features[k].tag = seal.messageList[i].tag
    /\ \A i, j \in 1..Len(seal.messageList) :
          seal.messageList[i].tag = seal.messageList[j].tag => i = j

\* every required feature has a message
RequiredPresent(features) ==
    \A k \in 1..Len(features) :
        features[k].required => ~Missing(seal.messageList, features[k])

\* every message has the form that the encoder of its feature's coding writes
CanonicalValues(features) ==
    \A k \in 1..Len(features) :
        \A i \in PositionsOf(seal.messageList, features[k].tag) :
            CanonicalValue(features[k].coding, seal.messageList[i].value)

\* list has as many entries as the seal has messages, the same set of tags,
\* and for every tag the value of the seal's message
SameMessages(list) ==
    /\ Len(list) = Len(seal.messageList)
    /\ {list[i].tag : i \in 1..Len(list)}
          = {seal.messageList[i].tag : i \in 1..Len(seal.messageList)}
    /\ \A i \in 1..Len(list) : \A j \in 1..Len(seal.messageList) :
          list[i].tag = seal.messageList[j].tag => list[i].value = seal.messageList[j].value

\* decodeSeal returns an instance, and encodeSeal of it the seal's messages
RoundTripHolds ==
    /\ op = "decodeSeal" => output.ok
    /\ op = "encodeSeal" => (output.ok /\ SameMessages(output.val))

\* C10 as stated: for every decoded seal (one that decodeSeal accepts for the
\* class C) whose message tags are all declared in the class schema (each tag
\* at most once), encodeSeal(decodeSeal(seal, C)) returns a TLV list with the
\* same number of entries, the same set of tags and, for every tag, the value
\* of the seal's message, for every coding.
C10_SchemaRoundTrip ==
    (/\ op = "encodeSeal"
     /\ MatchingSchema(SchemaOfCall)
     /\ DeclaredOnce(SchemaOfCall.val.features))
        => (output.ok /\ SameMessages(output.val))

\* C10 amended: for seals with every required feature whose values have the
\* form that the encoder of their coding writes, decodeSeal returns an
\* instance and encodeSeal of it returns such a list.
C10_SchemaRoundTripCanonical ==
    (/\ op \in {"decodeSeal", "encodeSeal"}
     /\ MatchingSchema(SchemaOfCall)
     /\ DeclaredOnce(SchemaOfCall.val.features)
     /\ RequiredPresent(SchemaOfCall.val.features)
     /\ CanonicalValues(SchemaOfCall.val.features))
        => RoundTripHolds

\* a seal with one message of every coding, decoded and encoded again
C10_Witness ==
    /\ op = "encodeSeal"
    /\ MatchingSchema(SchemaOfCall)
    /\ DeclaredOnce(SchemaOfCall.val.features)
    /\ RequiredPresent(SchemaOfCall.val.features)
    /\ CanonicalValues(SchemaOfCall.val.features)
    /\ Len(seal.messageList) = 7
    /\ output.ok
    /\ SameMessages(output.val)

\* the digest the statement names for a field size, "error" beyond 512
DigestOfStatement(fieldSize) ==
    IF fieldSize <= 224 THEN "sha224"
    ELSE IF fieldSize \in 225..256 THEN "sha256"
    ELSE IF fieldSize \in 257..384 THEN "sha384"
    ELSE IF fieldSize \in 385..512 THEN "sha512"
    ELSE "error"

\* outcome is the digest of data that the statement names for the field size
DigestOutcome(fieldSize, data, outcome) ==
    IF DigestOfStatement(fieldSize) = "error" THEN ~outcome.ok
    ELSE outcome.ok /\ outcome.val = Hash(DigestOfStatement(fieldSize), data)

\* C11: without prehash, signSeal (field size 8 x private-key bytes) and
\* verifySeal (field size 4 x (public-key bytes - 1)) take SHA-224 up to 224,
\* SHA-256 for 225..256, SHA-384 for 257..384, SHA-512 for 385..512 and throw
\* beyond; for an n-byte private key and its (2n+1)-byte public key both
\* sides take the same digest.
C11_DigestSelection ==
    /\ (op = "signSeal" /\ ~input.prehash)
          => /\ DigestOutcome(8 * input.key.length, input.data, output)
             /\ SameOutcome(output,
                            dataToSignOrVerify(Ok(input.data),
                                               Verifier_fieldSize(PublicKeyOf(input.key)),
                                               FALSE))
    /\ (op = "verifySeal" /\ ~input.prehash)
          => DigestOutcome(4 * (input.key.length - 1), input.data, output)

\* a 48-byte private key: the field size 384, the last that takes SHA-384
C11_Witness ==
    /\ op = "signSeal"
    /\ ~input.prehash
    /\ input.key.length = 48
    /\ output = Ok(Hash("sha384", input.data))

\* the number of TLVs of tlvs that carry tag
TagCount(tlvs, tag) == Cardinality({i \in 1..Len(tlvs) : tlvs[i].tag = tag})

\* exactly one message group, at most one signer certificate, at most one
\* signature, and no other tag
OneOfEachTag(tlvs) ==
    /\ TagCount(tlvs, 97) = 1
    /\ TagCount(tlvs, 126) <= 1
    /\ TagCount(tlvs, 127) <= 1
    /\ \A i \in 1..Len(tlvs) : tlvs[i].tag \in {97, 126, 127}

\* the top-level TLVs after the header of a barcode text
TopLevelTLVs(data, isSigned) ==
    parseTLVs(Slice(PayloadBytesOf(data).val, headerSize(isSigned),
                    Len(PayloadBytesOf(data).val)))

\* C12: IDBPayload.decode (here called by ICAOBarcode.decode) succeeds only
\* when the top-level TLVs after the header are exactly one message group
\* (0x61), at most one certificate (0x7E), at most one signature (0x7F) and
\* nothing else.
C12_PayloadTagCounts ==
    (op = "ICAOBarcode.decode" /\ output.ok)
        => OneOfEachTag(TopLevelTLVs(input.val, ICAOBarcode_isSigned(output.val)).val)

\* every TLV of bytes from the 0-based position is whole: its tag, its
\* length field of one byte or of 0x81/0x82/0x83 and one to three bytes, and
\* as many value bytes as the length field declares are all in the buffer
RECURSIVE CompleteTLVs(_, _)
CompleteTLVs(bytes, offset) ==
    IF offset = Len(bytes) THEN TRUE
    ELSE IF offset + 2 > Len(bytes) THEN FALSE
    ELSE LET first == bytes[offset + 2]
             k == IF first < 128 THEN 0 ELSE first - 128
             start == offset + 2 + k
         IN  /\ first < 128 \/ k \in 1..3
             /\ start <= Len(bytes)
             /\ LET le == IF first < 128 THEN first
                          ELSE bytesToNumberBE(Slice(bytes, offset + 2, start))
                IN  /\ start + le <= Len(bytes)
                    /\ CompleteTLVs(bytes, start + le)

\* C13: parseTLVs throws on every partial read: a buffer that ends after a
\* tag byte, inside a length field, or before the declared number of value
\* bytes; it returns a list only when every TLV of the buffer is whole.
C13_ParseTLVsPartialRead ==
    (op = "parseTLVs" /\ output.ok) => CompleteTLVs(input.val, 0)

\* v without its leading zero bytes, the last byte kept
RECURSIVE withoutLeadingZeros(_)
withoutLeadingZeros(v) ==
    IF Len(v) > 1 /\ v[1] = 0 THEN withoutLeadingZeros(Tail(v)) ELSE v

\* the content of the DER INTEGER of the unsigned big-endian value of v: the
\* fewest bytes, a zero byte in front when the top bit would otherwise be set
MinimalNonNegative(v) ==
    IF withoutLeadingZeros(v)[1] >= 128 THEN <<0>> \o withoutLeadingZeros(v)
    ELSE withoutLeadingZeros(v)

\* C14: for every non-empty byte string v, DerTLV.getDerInteger(v) is the DER
\* INTEGER (tag 2, length, content) whose content is the minimal
\* two's-complement encoding of the non-negative integer that v spells as
\* unsigned big-endian bytes.
C14_DerIntegerMinimalNonNegative ==
    (op = "getDerInteger" /\ input.val # <<>>)
        => output.val = <<2, Len(MinimalNonNegative(input.val))>>
                        \o MinimalNonNegative(input.val)

\* C15: for every value length n in 0..2^24-1, DerTLV.getDerLength(n) is the
\* single byte n when n <= 127, and otherwise 0x80|k followed by the k-byte
\* big-endian n with the smallest k.
C15_DerLengthMinimal ==
    op = "getDerLength" => output.val = getDerLengthMinimal(input.val)

\* the declared length of a raw signature TLV with a one-byte length field
DeclaredLength(data) == data[2]

\* C16: VDSSignature.decode / IDBSignature.decode split the value exactly in
\* half into r and s, throw when the value has an odd number of bytes, and
\* throw when the first byte is not the TAG of the format.
C16_SignatureDecodeHalves ==
    (op = "Signature.decode" /\ input.val # <<>>)
        => /\ input.val[1] # input.TAG => ~output.ok
           /\ (DeclaredLength(input.val) % 2) = 1 => ~output.ok
           /\ output.ok => /\ Len(output.val.r) = Len(output.val.s)
                           /\ output.val.r \o output.val.s
                                 = Slice(input.val, 2, Len(input.val))

\* the first length byte of derBytes announces no supported number of
\* length bytes: 0x80, or more than three
UnsupportedLengthCount(derBytes) ==
    Len(derBytes) >= 2 /\ (derBytes[2] = 128 \/ derBytes[2] > 131)

\* the length derBytes declares in one byte, or in the one to three bytes
\* after 0x81/0x82/0x83, is more than the bytes that follow the length field
DeclaredBeyondBuffer(derBytes) ==
    /\ Len(derBytes) >= 2
    /\ \/ derBytes[2] < 128 /\ derBytes[2] > Len(derBytes) - 2
       \/ /\ derBytes[2] \in 129..131
          /\ Len(derBytes) >= derBytes[2] - 126
          /\ bytesToNumberBE(Slice(derBytes, 2, derBytes[2] - 126))
                > Len(derBytes) - (derBytes[2] - 126)

\* C17: DerTLV.decode throws when the first length byte has its high bit set
\* and announces 0 or more than three length bytes, and when the declared
\* length exceeds the bytes that remain; it never returns a truncated value.
C17_DerDecodeMalformedLength ==
    (op = "DerTLV.decode"
     /\ (UnsupportedLengthCount(input.val) \/ DeclaredBeyondBuffer(input.val)))
        => ~output.ok

\* c is a space, a digit 0-9 or a letter A-Z
C40Character(c) == c = 32 \/ (c >= 48 /\ c <= 57) \/ (c >= 65 /\ c <= 90)

\* C18: C40Encoder.encode throws for every input that, after upper-casing,
\* '<'-to-space mapping and CR/LF stripping, holds a character outside
\* space, 0-9, A-Z, wherever it stands, the single last character of a
\* string of length 1 modulo 3 included.
C18_C40RejectsOtherCharacters ==
    (op = "C40Encoder.encode"
     /\ \E i \in 1..Len(C40DataString(input.val)) :
           ~C40Character(C40DataString(input.val)[i]))
        => ~output.ok

\* s is exactly dddd-dd-dd, every d a decimal digit or 'x'
ExactMaskedDate(s) ==
    /\ Len(s) = 10
    /\ s[5] = 45
    /\ s[8] = 45
    /\ \A i \in {1, 2, 3, 4, 6, 7, 9, 10} : IsDigit(s[i]) \/ s[i] = 120

\* C19: DateEncoder.encodeMaskedDate throws for every input that is not
\* exactly dddd-dd-dd with a decimal digit or 'x' in each slot: another
\* character in a slot, or characters before or after the pattern.
C19_MaskedDateRejectsMalformed ==
    (op = "DateEncoder.encodeMaskedDate" /\ ~ExactMaskedDate(input.val)) => ~output.ok

\* C20: IDBHeader.decode yields a header only for an input of exactly 2 or
\* exactly 12 bytes; an input of 0, 1, 3..11 or more than 12 bytes ends in
\* an error.
C20_HeaderLengths ==
    (op = "IDBHeader.decode" /\ Len(input.val) \notin {2, 12}) => ~output.ok

\* an input of 11 bytes, inside the 2..12 of the length check, is refused
\* (by decodeMaskedDate, which gets three bytes)
C20_Witness ==
    /\ op = "IDBHeader.decode"
    /\ Len(input.val) = 11
    /\ ~output.ok
    /\ IDBHeader_decode(input.val \o <<93>>).ok

\* C21: for every header that IDBHeader.decode produced, header.encoded is
\* exactly 2 bytes when the header has no signature fields and exactly 12
\* bytes when it has them, whatever the signature-algorithm byte of the input.
C21_HeaderEncodedLength ==
    op = "IDBHeader.encoded"
        => /\ output.ok
           /\ Len(output.val)
                 = (IF IDBHeader_decode(input.val).val.signatureAlgorithm = Null
                    THEN 2 ELSE 12)

\* the bytes VDSHeader.decode consumed for the certificate reference: what
\* lies between the 8 bytes before it and the 8 bytes after it
ConsumedForCertRef(header) == header._offset - 16

\* C22 as stated: for raw version 3 and every declared length len in 1..255,
\* VDSHeader.decode consumes ceil((len-1)/3)*2 + 2 bytes for the
\* certificate reference.
C22_CertRefBytesCeil ==
    (op = "VDSHeader.decode" /\ input.len >= 1 /\ input.docFeatureRef \in 1..254)
        => /\ output.ok
           /\ ConsumedForCertRef(output.val) = ((((input.len - 1) + 2) \div 3) * 2) + 2

\* C22 amended: the quotient is rounded down, floor((len-1)/3)*2 + 2, which
\* is 2 bytes for 1..3, 4 for 4..6, and so on.
C22_CertRefBytesFloor ==
    (op = "VDSHeader.decode" /\ input.len >= 1 /\ input.docFeatureRef \in 1..254)
        => /\ output.ok
           /\ ConsumedForCertRef(output.val) = (((input.len - 1) \div 3) * 2) + 2
           /\ ConsumedForCertRef(output.val) = 2 * ((input.len + 2) \div 3)

\* a declared length of 2, where rounding up and rounding down differ
C22_Witness ==
    /\ op = "VDSHeader.decode"
    /\ input.len = 2
    /\ output.ok
    /\ output.val._offset = 18
    /\ output.val.docTypeCat = 6

\* n characters '0'
Zeros(n) == [i \in 1..n |-> 48]

\* the bytes that get encoded wrote for the signer identifier and the
\* certificate reference of a version-3 header are the C40 bytes of text
WritesSignerAndReference(encoded, text) ==
    /\ encoded.ok
    /\ Slice(encoded.val, 4, 10) = C40Encoder_encode(toUpperCase(text)).val

RECURSIVE SuppliedTags(_, _)
SuppliedTags(object, features) ==
    IF features = <<>> THEN <<>>
    ELSE IF hasProperty(object, Head(features).name)
    THEN <<Head(features).tag>> \o SuppliedTags(object, Tail(features))
    ELSE SuppliedTags(object, Tail(features))

\* the tags of a list of TLVs
TagsOf(tlvs) == [i \in 1..Len(tlvs) |-> tlvs[i].tag]

\* an integer feature of the schema is supplied with a negative value
SuppliesNegative(object, features) ==
    \E i \in 1..Len(features) :
        /\ features[i].coding = INT
        /\ hasProperty(object, features[i].name)
        /\ getProperty(object, features[i].name).bigint < 0

\* a required feature of the schema is not supplied
MissesRequired(object, features) ==
    \E i \in 1..Len(features) :
        features[i].required /\ ~hasProperty(object, features[i].name)

\* every integer feature supplied as 0 has a TLV of the single byte 0x00
ZeroAsOneByte(object, features, tlvs) ==
    \A i \in 1..Len(features) :
        (/\ features[i].coding = INT
         /\ hasProperty(object, features[i].name)
         /\ getProperty(object, features[i].name).bigint = 0)
        => \E j \in 1..Len(tlvs) :
              tlvs[j].tag = features[i].tag /\ tlvs[j].value = <<0>>

\* C24: mapFeaturesToSeal and encodeSeal write exactly one TLV for every
\* supplied feature of the schema, in schema order; a supplied integer 0 is
\* written as the single byte 0x00, a negative integer is an error, and a
\* required feature is never left out of a returned list.
C24_SchemaEncoding ==
    (op \in {"mapFeaturesToSeal", "encodeSeal(instance)"}) =>
        /\ SuppliesNegative(input.object, input.schema.features) => ~output.ok
        /\ MissesRequired(input.object, input.schema.features) => ~output.ok
        /\ output.ok =>
              /\ TagsOf(output.val) = SuppliedTags(input.object, input.schema.features)
              /\ ZeroAsOneByte(input.object, input.schema.features, output.val)

\* the TLVs that parseTLVs reads after the header of a decoded seal
TLVsAfterHeader(data, s) == parseTLVs(Slice(data, s.header._offset, Len(data))).val

\* the TLVs of a list whose tag is not 0xFF, in the order of the list
WithoutSignatureTLVs(tlvs) == SelectSeq(tlvs, LAMBDA t : t.tag # 255)

\* C25: for every byte string that Seal.decode accepts, messageList is the
\* list of the TLVs after the header whose tag is not 0xFF, in wire order,
\* it holds no TLV of tag 0xFF, and signature is non-null exactly when a TLV
\* of tag 0xFF follows the header.
C25_MessageListWithoutSignature ==
    (op = "Seal.decode" /\ output.ok) =>
        /\ output.val.messageList = WithoutSignatureTLVs(TLVsAfterHeader(input.val, output.val))
        /\ \A i \in 1..Len(output.val.messageList) : output.val.messageList[i].tag # 255
        /\ (output.val.signature # Null)
           <=> (\E i \in 1..Len(TLVsAfterHeader(input.val, output.val)) :
                   TLVsAfterHeader(input.val, output.val)[i].tag = 255)

\* a signature before a message: the message is kept, the signature is set
C25_Witness ==
    /\ op = "Seal.decode"
    /\ output.ok
    /\ input.val = WireHeaderV4 \o <<255, 4, 1, 2, 3, 4>> \o <<2, 2, 65, 66>>
    /\ output.val.messageList = <<DerTLV(2, <<65, 66>>)>>
    /\ output.val.signature = Signature(<<1, 2>>, <<3, 4>>)

\* C26: every VDSHeader, constructed, decoded or after assignments to
\* documentRef, has docFeatureRef in 1..254 and docTypeCat in 1..253.
C26_DocumentRefRanges ==
    (op \in {"new VDSHeader", "VDSHeader.decode", "set documentRef"} /\ output.ok) =>
        /\ output.val.docFeatureRef \in 1..254
        /\ output.val.docTypeCat \in 1..253

\* a string of len characters 'A'
StringOfLength(len) == [i \in 1..len |-> 65]

\* decoding header.encoded gave the dates and the document bytes of the
\* header and stopped at the end of the bytes
ReadsWhereWritten(header, encoded, decoded) ==
    /\ decoded.ok
    /\ decoded.val._offset = Len(encoded)
    /\ SameCalendarDate(decoded.val.issuingDate, header.issuingDate)
    /\ SameCalendarDate(decoded.val.sigDate, header.sigDate)
    /\ decoded.val.docFeatureRef = header.docFeatureRef
    /\ decoded.val.docTypeCat = header.docTypeCat

\* C27: for every declared length 0..255 VDSHeader.decode consumes as many
\* bytes for the certificate reference of a raw-version-3 header as
\* C40Encoder.encode writes for a string of that length, so that decoding
\* the encoded form of a header with a signer identifier of 4 characters
\* reads the dates and the document bytes where they were written and
\* _offset is the length of the encoded header.
C27_DecodeReadsEncodedHeader ==
    /\ (op = "VDSHeader.decode" /\ input.docFeatureRef \in 1..254) =>
          /\ output.ok
          /\ ConsumedForCertRef(output.val)
                = Len(C40Encoder_encode(StringOfLength(input.len)).val)
    /\ (op = "VDSHeader.decode(encoded)" /\ input.val.rawVersion = 3
           /\ Len(input.val.signerIdentifier) = 4) =>
          ReadsWhereWritten(input.val, input.encoded, output)

\* the three signature fields of a header
AllSignatureFieldsSet(header) ==
    /\ header.signatureAlgorithm # Null
    /\ header.certificateReference # Null
    /\ header.signatureCreationDate # Null

NoSignatureFieldSet(header) ==
    /\ header.signatureAlgorithm = Null
    /\ header.certificateReference = Null
    /\ header.signatureCreationDate = Null

\* the header is the one of the first n bytes of the payload, and the
\* payload has that many
HeaderOfFirstBytes(header, payloadBytes, n) ==
    /\ Len(payloadBytes) >= n
    /\ IDBHeader_decode(Slice(payloadBytes, 0, n)) = Ok(header)

\* C28: in every barcode that ICAOBarcode.decode returns, isSigned is true
\* exactly when the three signature fields of the header are non-null and
\* false exactly when the three are null; a signed barcode has the header of
\* the first 12 payload bytes, an unsigned one the header of the first 2.
C28_SignedFlagAgreesWithHeader ==
    (op = "ICAOBarcode.decode" /\ output.ok) =>
        /\ ICAOBarcode_isSigned(output.val)
              <=> AllSignatureFieldsSet(output.val.payload.header)
        /\ ~ICAOBarcode_isSigned(output.val)
              <=> NoSignatureFieldSet(output.val.payload.header)
        /\ HeaderOfFirstBytes(output.val.payload.header, PayloadBytesOf(input.val).val,
                              IF ICAOBarcode_isSigned(output.val) THEN 12 ELSE 2)

\* a signed barcode whose header has algorithm byte 0
C28_Witness ==
    /\ op = "ICAOBarcode.decode"
    /\ output.ok
    /\ ICAOBarcode_isSigned(output.val)
    /\ output.val.payload.header.signatureAlgorithm = Some(0)

(***************************************************************************)
(* Specification SpecRegistry: classes are decorated with @VDSDocument and *)
(* @VDSProp in any order and any number of times, and seals are decoded   *)
(* into and encoded from instances of these classes in between.            *)
(***************************************************************************)
\* the most features a class is given before one more @VDSProp is tried
MaxFeatures == 2

\* the decorated classes
Classes == {"Visa", "Permit"}

\* options of @VDSDocument: documentRef 0xfb06 in version 4 and 0xf908 in version 3
DocumentMetas ==
    {[documentRef |-> 64262, version |-> 4], [documentRef |-> 63752, version |-> 3]}

\* options of @VDSProp: two tags, tag 3 with two codings
PropOptions ==
    {[tag |-> 3, coding |-> INT, optional |-> FALSE],
     [tag |-> 3, coding |-> UTF8_STRING, optional |-> TRUE],
     [tag |-> 7, coding |-> UTF8_STRING, optional |-> TRUE]}

\* the decorated properties
PropertyKeys == {"entries", "name"}

\* a seal of documentRef 0xfb06 with an integer and a string
RegistrySeal == Seal(SchemaHeader(3), <<DerTLV(3, <<1, 44>>), DerTLV(7, <<65>>)>>, Null)

\* instances a caller fills in
RegistryInstances ==
    {{[name |-> "entries", value |-> JsBigInt(300)]},
     {[name |-> "entries", value |-> JsBigInt(300)],
      [name |-> "name", value |-> JsString(<<65>>)]}}

InitRegistry ==
    /\ op = "init"
    /\ input = Null
    /\ output = Null
    /\ seal = NoSeal
    /\ barcode = NoBarcode
    /\ vdsDocumentStorage = NewMap
    /\ vdsSchemaStorage = NewMap
    /\ position = 0
    /\ derTlvList = <<>>

\* @VDSDocument(options) on the class target
RegisterDocument ==
    /\ \E target \in Classes, options \in DocumentMetas :
          \E call \in {VDSDocument(vdsDocumentStorage, target, options)} :
             /\ input' = [kind |-> "VDSDocument", target |-> target, options |-> options]
             /\ output' = IF call.ok THEN Ok(target) ELSE Err
             /\ vdsDocumentStorage' = call.storage
    /\ op' = "VDSDocument"
    /\ UNCHANGED <<seal, barcode, vdsSchemaStorage>>
    /\ UNCHANGED <<position, derTlvList>>

\* @VDSProp(options) on the property propertyKey of the class ctor
RegisterProp ==
    /\ \E ctor \in Classes, propertyKey \in PropertyKeys, options \in PropOptions :
          /\ MapHas(vdsSchemaStorage, ctor)
                => Len(vdsSchemaStorage[ctor].features) <= MaxFeatures
          /\ \E call \in {VDSProp(vdsSchemaStorage, ctor, propertyKey, options)} :
                /\ input' = [kind |-> "VDSProp", target |-> ctor,
                             propertyKey |-> propertyKey, options |-> options]
                /\ output' = IF call.ok THEN Ok(ctor) ELSE Err
                /\ vdsSchemaStorage' = call.storage
    /\ op' = "VDSProp"
    /\ UNCHANGED <<seal, barcode, vdsDocumentStorage>>
    /\ UNCHANGED <<position, derTlvList>>

\* decodeSeal(seal, ctor)
RegistryDecodeSeal ==
    /\ \E ctor \in Classes :
          /\ input' = [kind |-> "decodeSeal", target |-> ctor]
          /\ output' = decodeSeal(RegistrySeal,
                                  StoredConstructor(vdsDocumentStorage, vdsSchemaStorage, ctor))
    /\ op' = "decodeSeal"
    /\ UNCHANGED <<seal, barcode, vdsDocumentStorage, vdsSchemaStorage>>
    /\ UNCHANGED <<position, derTlvList>>

\* encodeSeal(instance), instance being of the class ctor
RegistryEncodeSeal ==
    /\ \E ctor \in Classes, instance \in RegistryInstances :
          /\ input' = [kind |-> "encodeSeal", target |-> ctor, instance |-> instance]
          /\ output' = encodeSeal(instance,
                                  StoredConstructor(vdsDocumentStorage, vdsSchemaStorage, ctor))
    /\ op' = "encodeSeal"
    /\ UNCHANGED <<seal, barcode, vdsDocumentStorage, vdsSchemaStorage>>
    /\ UNCHANGED <<position, derTlvList>>

NextRegistry ==
    \/ RegisterDocument
    \/ RegisterProp
    \/ RegistryDecodeSeal
    \/ RegistryEncodeSeal

SpecRegistry == InitRegistry /\ [][NextRegistry]_vars

\* the tags of a feature list are pairwise distinct
DistinctTags(features) ==
    \A i, j \in 1..Len(features) : features[i].tag = features[j].tag => i = j

\* every class has pairwise distinct tags in its feature list
RegistryDistinctTags ==
    \A c \in DOMAIN vdsSchemaStorage : DistinctTags(vdsSchemaStorage[c].features)

\* the list a begins the list b
IsPrefix(a, b) == Len(a) <= Len(b) /\ SubSeq(b, 1, Len(a)) = a

\* the features of a class, none if it has no schema
FeaturesOf(schemas, c) == IF MapHas(schemas, c) THEN schemas[c].features ELSE <<>>

\* one step of the registry: what a registration or a call leaves as it was
RegistryStep ==
    /\ RegistryDistinctTags'
    /\ \A c \in DOMAIN vdsDocumentStorage :
          MapHas(vdsDocumentStorage', c) /\ vdsDocumentStorage'[c] = vdsDocumentStorage[c]
    /\ \A c \in DOMAIN vdsSchemaStorage :
          /\ MapHas(vdsSchemaStorage', c)
          /\ IsPrefix(vdsSchemaStorage[c].features, vdsSchemaStorage'[c].features)
    /\ (op' = "VDSProp" /\ output'.ok) =>
          FeaturesOf(vdsSchemaStorage', input'.target)
             = Append(FeaturesOf(vdsSchemaStorage, input'.target),
                      Feature(input'.options.tag, input'.propertyKey,
                              input'.options.coding, ~input'.options.optional))
    /\ (op' \in {"VDSDocument", "VDSProp"} /\ ~output'.ok) =>
          UNCHANGED <<vdsDocumentStorage, vdsSchemaStorage>>
    /\ (op' \in {"decodeSeal", "encodeSeal"}) =>
          UNCHANGED <<vdsDocumentStorage, vdsSchemaStorage>>

\* C29: after any sequence of VDSDocument and VDSProp registrations and of
\* decodeSeal and encodeSeal calls, the feature list of every class has
\* pairwise distinct tags and keeps the order of registration, the document
\* metadata of a class stays as it was first set, a registration that throws
\* leaves both maps as they were, and decodeSeal and encodeSeal leave them
\* as they were.
C29_RegistryReadOnly == [][RegistryStep]_vars

\* a third @VDSProp that threw on a class with a document and two features
C29_Witness ==
    /\ op = "VDSProp"
    /\ ~output.ok
    /\ MapHas(vdsDocumentStorage, input.target)
    /\ Len(FeaturesOf(vdsSchemaStorage, input.target)) = 2
    /\ FeaturesOf(vdsSchemaStorage, input.target)[1].tag = 7

(***************************************************************************)
(* Specification SpecParse: parseTLVs runs its while loop one iteration at *)
(* a time, until it returns or throws.  SpecParseFair lets no enabled      *)
(* step wait for ever: the loop is sequential code that keeps running.     *)
(***************************************************************************)
\* TLVs of declared length 0 in every form of the length, and a buffer of
\* odd length
ZeroLengthTLVs == <<1, 0, 2, 129, 0, 3, 130, 0, 0, 4, 131, 0, 0, 0>>

ParseBuffers == DerBuffers \cup {ZeroLengthTLVs, <<1, 0, 2, 0, 3>>, <<1, 0, 2, 0, 3, 0, 4, 0>>}

InitParse ==
    /\ op = "init"
    /\ input = Null
    /\ output = Null
    /\ seal = NoSeal
    /\ barcode = NoBarcode
    /\ vdsDocumentStorage = NewMap
    /\ vdsSchemaStorage = NewMap
    /\ position = 0
    /\ derTlvList = <<>>

\* parseTLVs(rawBytes) is called
ParseTLVsCall ==
    /\ op = "init"
    /\ \E rawBytes \in ParseBuffers : input' = [kind |-> "bytes", val |-> rawBytes]
    /\ position' = 0
    /\ derTlvList' = <<>>
    /\ op' = "parseTLVs: while"
    /\ UNCHANGED <<output, seal, barcode, vdsDocumentStorage, vdsSchemaStorage>>

\* one iteration of while (position < rawBytes.length)
ParseTLVsIteration ==
    /\ op = "parseTLVs: while"
    /\ position < Len(input.val)
    /\ \E step \in {parseTLVs_body(input.val, position)} :
          IF step.ok
          THEN /\ position' = step.val.position
               /\ derTlvList' = Append(derTlvList, step.val.tlv)
               /\ UNCHANGED <<op, output>>
          ELSE /\ op' = "parseTLVs: throw"
               /\ output' = Err
               /\ UNCHANGED <<position, derTlvList>>
    /\ UNCHANGED <<input, seal, barcode, vdsDocumentStorage, vdsSchemaStorage>>

\* return derTlvList
ParseTLVsReturn ==
    /\ op = "parseTLVs: while"
    /\ position >= Len(input.val)
    /\ op' = "parseTLVs: return"
    /\ output' = Ok(derTlvList)
    /\ UNCHANGED <<input, seal, barcode, vdsDocumentStorage, vdsSchemaStorage>>
    /\ UNCHANGED <<position, derTlvList>>

NextParse ==
    \/ ParseTLVsCall
    \/ ParseTLVsIteration
    \/ ParseTLVsReturn

SpecParse == InitParse /\ [][NextParse]_vars

SpecParseFair == SpecParse /\ WF_vars(NextParse)

\* the iterations that ran: one for every TLV read, and the one that threw
Iterations == Len(derTlvList) + (IF op = "parseTLVs: throw" THEN 1 ELSE 0)

\* ceil(n / 2)
HalfRoundedUp(n) == (n + 1) \div 2

\* the call is over
ParseTLVsDone == op \in {"parseTLVs: return", "parseTLVs: throw"}

\* at most ceil(length/2) iterations ran, and what the loop returns is what
\* parseTLVs returns
IterationsBounded ==
    /\ op # "init" => Iterations <= HalfRoundedUp(Len(input.val))
    /\ ParseTLVsDone => output = parseTLVs(input.val)

\* an iteration that does not throw moves the position on by at least 2
AdvancesByTwo ==
    (op = "parseTLVs: while" /\ op' = "parseTLVs: while") => position' >= position + 2

\* C30: parseTLVs terminates on every byte string: every iteration moves the
\* read position on by at least 2, at most ceil(length/2) iterations run,
\* and the call returns a list or throws, also for the length prefixes
\* 0x81, 0x82 and 0x83 with a declared length of 0.
C30_ParseTLVsTerminates ==
    /\ []IterationsBounded
    /\ [][AdvancesByTwo]_vars
    /\ <>ParseTLVsDone

\* the TLVs of declared length 0 in every form were read in four iterations
C30_Witness ==
    /\ op = "parseTLVs: return"
    /\ input.val = ZeroLengthTLVs
    /\ Len(derTlvList) = 4
    /\ position = Len(ZeroLengthTLVs)

================================================================================
